---- MODULE Spec2Model ----
(***************************************************************************)
(* teav: Option, Result and Either as values.                              *)
(*                                                                         *)
(* The model is a heap of JavaScript objects (identity = heap address) and *)
(* one action per library call.  Every method is an operator that takes    *)
(* the heap and returns the heap after the call, the outcome of the call   *)
(* (a returned value or a thrown value) and the list of callback calls it  *)
(* made.  Two generations of Option/Result live in the repository: the     *)
(* subclass-per-variant one (Some/None, Ok/Err) and the older single-class *)
(* one that keeps a tagged `_value`; the variable impl fixes which of the  *)
(* two a run uses.                                                         *)
(***************************************************************************)
EXTENDS Integers, Sequences, FiniteSets, TLC

VARIABLES impl, heap, last, task

vars == <<impl, heap, last, task>>

(***************************************************************************)
(* Bounds.                                                                 *)
(***************************************************************************)
\* the objects a run allocates
MaxHeap == 2

\* the length of the expectedErrors list handed to from/fromAsync
MaxExpected == 2

(***************************************************************************)
(* JavaScript values: primitives and references to heap objects.           *)
(***************************************************************************)
Undefined == [k |-> "undefined", n |-> 0]

Null == [k |-> "null", n |-> 0]

Num(i) == [k |-> "number", n |-> i]

Bool(b) == [k |-> "boolean", n |-> IF b THEN 1 ELSE 0]

Ref(a) == [k |-> "object", n |-> a]

\* The primitives callers pass in.
Prims == {Undefined, Null, Num(0)}

Refs(h) == {Ref(a) : a \in DOMAIN h}

Vals(h) == Prims \cup Refs(h)

IsRef(v) == v.k = "object"

(***************************************************************************)
(* Heap objects.  syms: the symbol-keyed own properties of the object;     *)
(* value: the `value` field of a subclass instance (or element 0 of an     *)
(* array); _value: the tagged payload of a single-class instance, itself   *)
(* an object literal with its own symbol keys and an `inner` field;        *)
(* message: the message of an Error.                                       *)
(***************************************************************************)
NoTag == [syms |-> {}, inner |-> Undefined]

Instance(cls, syms, value) ==
    [cls |-> cls, syms |-> syms, value |-> value, _value |-> NoTag, message |-> ""]

Tagged(cls, sym, inner) ==
    [cls |-> cls, syms |-> {}, value |-> Undefined,
     _value |-> [syms |-> {sym}, inner |-> inner], message |-> ""]

ErrorObject(cls, message) ==
    [cls |-> cls, syms |-> {}, value |-> Undefined, _value |-> NoTag, message |-> message]

\* The error kinds a wrapped computation raises: Error, a kind derived from it
\* and a kind derived from that one.
ErrorKinds == {"Error", "IoError", "FileNotFound"}

\* `class X extends Y`
Extends(cls) ==
    CASE cls \in {"Some", "None"} -> "Option"
      [] cls \in {"Ok", "Err"} -> "Result"
      [] cls \in {"Left", "Right"} -> "Either"
      [] cls = "IoError" -> "Error"
      [] cls = "FileNotFound" -> "IoError"
      [] OTHER -> "Object"

RECURSIVE ProtoChain(_)
ProtoChain(cls) ==
    IF cls = "Object" THEN {"Object"} ELSE {cls} \cup ProtoChain(Extends(cls))

\* value instanceof ctor
InstanceOf(h, value, ctor) ==
    IsRef(value) /\ ctor \in ProtoChain(h[value.n].cls)

\* Reflect.has(target, sym) for an object on the heap
ReflectHas(h, target, sym) == sym \in h[target.n].syms

(***************************************************************************)
(* Outcome of a call: the heap after it, what it returned or threw, and    *)
(* the callback calls it made, in order.                                   *)
(***************************************************************************)
Ret(h, v, calls) ==
    [heap |-> h, out |-> [kind |-> "return", val |-> v], calls |-> calls]

Thr(h, v, calls) ==
    [heap |-> h, out |-> [kind |-> "throw", val |-> v], calls |-> calls]

Returned(r) == r.out.kind = "return"

Threw(r) == r.out.kind = "throw"

\* new C(...): the object gets the next free address
New(h, obj) == Ret(Append(h, obj), Ref(Len(h) + 1), <<>>)

\* Sequencing: evaluate r, and unless it threw go on with F on its heap and
\* value; a throw propagates (no operation of the library but the adapters
\* has a try/catch).
Then(r, F(_, _)) ==
    IF Threw(r) THEN r
    ELSE LET s == F(r.heap, r.out.val)
         IN [s EXCEPT !.calls = r.calls \o s.calls]

\* try { r } catch (error) { F(error) }
Catch(r, F(_, _)) ==
    IF Returned(r) THEN r
    ELSE LET s == F(r.heap, r.out.val)
         IN [s EXCEPT !.calls = r.calls \o s.calls]

(***************************************************************************)
(* Caller-supplied callbacks.                                              *)
(***************************************************************************)
\* (v) => !v, (v) => [v] (as in the property tests), (v) => { throw v }
Fns == {"not", "box", "raise"}

\* !v: false for an object and for true, true for undefined, null, 0 and false
Not(v) == Bool(~(IsRef(v) \/ v = Bool(TRUE)))

ApplyFn(fn, h, args) ==
    LET call == <<[fn |-> fn, args |-> args]>>
        body == CASE fn = "not" -> Ret(h, Not(args[1]), <<>>)
                  [] fn = "box" -> New(h, Instance("Array", {}, args[1]))
                  [] OTHER -> Thr(h, args[1], <<>>)
    IN [body EXCEPT !.calls = call]

(***************************************************************************)
(* Constructors (subclass-per-variant generation).                         *)
(***************************************************************************)
\* new Some(value), with its `[SYM_SOME] = true` field
Some_constructor(h, value) == New(h, Instance("Some", {"SYM_SOME"}, value))

\* new None(), with its `[SYM_NONE] = true` field
None_constructor(h) == New(h, Instance("None", {"SYM_NONE"}, Undefined))

Option_Some(h, value) == Some_constructor(h, value)

Option_None(h) == None_constructor(h)

Ok_constructor(h, value) == New(h, Instance("Ok", {"SYM_OK"}, value))

Err_constructor(h, value) == New(h, Instance("Err", {"SYM_ERR"}, value))

Result_Ok(h, value) == Ok_constructor(h, value)

Result_Err(h, error) == Err_constructor(h, error)

Left_constructor(h, value) == New(h, Instance("Left", {"SYM_LEFT"}, value))

Right_constructor(h, value) == New(h, Instance("Right", {"SYM_RIGHT"}, value))

Either_Left(h, value) == Left_constructor(h, value)

Either_Right(h, value) == Right_constructor(h, value)

(***************************************************************************)
(* Constructors (single-class generation): one class, a tagged `_value`.   *)
(***************************************************************************)
OptionT_Some(h, value) == New(h, Tagged("OptionT", "SYM_SOME", value))

OptionT_None(h) == New(h, Tagged("OptionT", "SYM_NONE", Undefined))

ResultT_Ok(h, value) == New(h, Tagged("ResultT", "SYM_OK", value))

ResultT_Err(h, error) == New(h, Tagged("ResultT", "SYM_ERR", error))

\* new Error(message) and its subclasses (host environment)
NewError(h, cls, message) == New(h, ErrorObject(cls, message))

(***************************************************************************)
(* Variant predicates.                                                     *)
(***************************************************************************)
Option_isNone(h, this) == ReflectHas(h, this, "SYM_NONE")

Option_isSome(h, this) == ReflectHas(h, this, "SYM_SOME")

Some_isNone(h, this) == FALSE

\* return this.value !== undefined
Some_isSome_ByValue(h, this) == h[this.n].value # Undefined

Some_isSome(h, this) == TRUE

None_isNone(h, this) == TRUE

None_isSome(h, this) == FALSE

\* Reflect.has(this._value, SYM_NONE)
OptionT_isNone(h, this) == "SYM_NONE" \in h[this.n]._value.syms

OptionT_isSome(h, this) == "SYM_SOME" \in h[this.n]._value.syms

Result_isErr(h, this) == ReflectHas(h, this, "SYM_ERR")

Result_isOk(h, this) == ReflectHas(h, this, "SYM_OK")

Ok_isErr(h, this) == FALSE

Ok_isOk(h, this) == TRUE

Err_isErr(h, this) == TRUE

\* Err.isOk() answering as Ok.isOk() does
Err_isOk_AsOk(h, this) == TRUE

Err_isOk(h, this) == FALSE

ResultT_isErr(h, this) == "SYM_ERR" \in h[this.n]._value.syms

ResultT_isOk(h, this) == "SYM_OK" \in h[this.n]._value.syms

Either_isLeft(h, this) == ReflectHas(h, this, "SYM_LEFT")

Either_isRight(h, this) == ReflectHas(h, this, "SYM_RIGHT")

Left_isLeft(h, this) == TRUE

Left_isRight(h, this) == FALSE

Right_isLeft(h, this) == FALSE

Right_isRight(h, this) == TRUE

\* Method lookup: the override of the receiver's class, else the base class.
isNone(h, this) ==
    CASE h[this.n].cls = "Some" -> Some_isNone(h, this)
      [] h[this.n].cls = "None" -> None_isNone(h, this)
      [] h[this.n].cls = "OptionT" -> OptionT_isNone(h, this)
      [] OTHER -> Option_isNone(h, this)

isSome(h, this) ==
    CASE h[this.n].cls = "Some" -> Some_isSome(h, this)
      [] h[this.n].cls = "None" -> None_isSome(h, this)
      [] h[this.n].cls = "OptionT" -> OptionT_isSome(h, this)
      [] OTHER -> Option_isSome(h, this)

isErr(h, this) ==
    CASE h[this.n].cls = "Ok" -> Ok_isErr(h, this)
      [] h[this.n].cls = "Err" -> Err_isErr(h, this)
      [] h[this.n].cls = "ResultT" -> ResultT_isErr(h, this)
      [] OTHER -> Result_isErr(h, this)

isOk(h, this) ==
    CASE h[this.n].cls = "Ok" -> Ok_isOk(h, this)
      [] h[this.n].cls = "Err" -> Err_isOk(h, this)
      [] h[this.n].cls = "ResultT" -> ResultT_isOk(h, this)
      [] OTHER -> Result_isOk(h, this)

isLeft(h, this) ==
    CASE h[this.n].cls = "Left" -> Left_isLeft(h, this)
      [] h[this.n].cls = "Right" -> Right_isLeft(h, this)
      [] OTHER -> Either_isLeft(h, this)

isRight(h, this) ==
    CASE h[this.n].cls = "Left" -> Left_isRight(h, this)
      [] h[this.n].cls = "Right" -> Right_isRight(h, this)
      [] OTHER -> Either_isRight(h, this)

(***************************************************************************)
(* Option (subclass generation).                                           *)
(***************************************************************************)
Some_expect(h, this, errorMsg) == Ret(h, h[this.n].value, <<>>)

\* return undefined in place of the throw
None_expect_Sentinel(h, this, errorMsg) == Ret(h, Undefined, <<>>)

\* throw new Error(errorMsg)
None_expect(h, this, errorMsg) ==
    LET e == NewError(h, "Error", errorMsg) IN Thr(e.heap, e.out.val, <<>>)

Option_expect(h, this, errorMsg) ==
    IF isSome(h, this)
    THEN Ret(h, h[this.n].value, <<>>)
    ELSE LET e == NewError(h, "Error", errorMsg) IN Thr(e.heap, e.out.val, <<>>)

expectOption(h, this, errorMsg) ==
    CASE h[this.n].cls = "Some" -> Some_expect(h, this, errorMsg)
      [] h[this.n].cls = "None" -> None_expect(h, this, errorMsg)
      [] OTHER -> Option_expect(h, this, errorMsg)

Some_unwrap(h, this) == Ret(h, h[this.n].value, <<>>)

None_unwrap(h, this) == expectOption(h, this, "Tried to unwrap a None value")

Option_unwrap(h, this) == expectOption(h, this, "Tried to unwrap a None value")

unwrapOption(h, this) ==
    CASE h[this.n].cls = "Some" -> Some_unwrap(h, this)
      [] h[this.n].cls = "None" -> None_unwrap(h, this)
      [] OTHER -> Option_unwrap(h, this)

Some_unwrapOrUndefined(h, this) == Ret(h, h[this.n].value, <<>>)

None_unwrapOrUndefined(h, this) == Ret(h, Undefined, <<>>)

Option_unwrapOrUndefined(h, this) ==
    IF isSome(h, this) THEN unwrapOption(h, this) ELSE Ret(h, Undefined, <<>>)

unwrapOrUndefined(h, this) ==
    CASE h[this.n].cls = "Some" -> Some_unwrapOrUndefined(h, this)
      [] h[this.n].cls = "None" -> None_unwrapOrUndefined(h, this)
      [] OTHER -> Option_unwrapOrUndefined(h, this)

\* fn is called and what it returns is dropped
Option_map_KeepsPayload(h, this, fn) ==
    IF isSome(h, this)
    THEN Then(unwrapOption(h, this), LAMBDA h1, v :
         Then(ApplyFn(fn, h1, <<v>>), LAMBDA h2, u : Option_Some(h2, v)))
    ELSE Option_None(h)

Option_map(h, this, fn) ==
    IF isSome(h, this)
    THEN Then(unwrapOption(h, this), LAMBDA h1, v :
         Then(ApplyFn(fn, h1, <<v>>), LAMBDA h2, u : Option_Some(h2, u)))
    ELSE Option_None(h)

Option_flatten(h, this) ==
    IF isNone(h, this)
    THEN Ret(h, this, <<>>)
    ELSE Then(unwrapOption(h, this), LAMBDA h1, value :
              IF InstanceOf(h1, value, "Option")
              THEN Ret(h1, value, <<>>)
              ELSE Ret(h1, this, <<>>))

Option_okOr(h, this, error) ==
    IF isSome(h, this)
    THEN Then(unwrapOption(h, this), LAMBDA h1, v : Result_Ok(h1, v))
    ELSE Result_Err(h, error)

(***************************************************************************)
(* The computations handed to the adapters: fn returns a value, throws a   *)
(* value that exists already (any value: `throw` takes primitives too), or *)
(* throws a new error of some kind.                                        *)
(***************************************************************************)
Thunks(h) ==
    {[does |-> "return", val |-> v, cls |-> ""] : v \in Vals(h)}
    \cup {[does |-> "throw", val |-> v, cls |-> ""] : v \in Vals(h)}
    \cup {[does |-> "throwNew", val |-> Undefined, cls |-> c] : c \in ErrorKinds}

NoThunk == [does |-> "", val |-> Undefined, cls |-> ""]

CallThunk(fn, h) ==
    LET call == <<[fn |-> "fn", args |-> <<>>]>>
        body == CASE fn.does = "return" -> Ret(h, fn.val, <<>>)
                  [] fn.does = "throw" -> Thr(h, fn.val, <<>>)
                  [] OTHER -> LET e == NewError(h, fn.cls, "")
                              IN Thr(e.heap, e.out.val, <<>>)
    IN [body EXCEPT !.calls = call]

(***************************************************************************)
(* Option combinators (subclass generation).                               *)
(***************************************************************************)
\* this.isSome() ? this : optb
Option_and_KeepsThis(h, this, optb) ==
    IF isSome(h, this) THEN Ret(h, this, <<>>) ELSE Option_None(h)

Option_and(h, this, optb) ==
    IF isSome(h, this) THEN Ret(h, optb, <<>>) ELSE Option_None(h)

Option_or(h, this, optb) ==
    IF isSome(h, this) THEN Ret(h, this, <<>>) ELSE Ret(h, optb, <<>>)

\* this.isSome() ? this : fn() with fn() evaluated first
Option_orElse_Eager(h, this, fn) ==
    Then(CallThunk(fn, h), LAMBDA h1, o :
         IF isSome(h1, this) THEN Ret(h1, this, <<>>) ELSE Ret(h1, o, <<>>))

Option_orElse(h, this, fn) ==
    IF isSome(h, this) THEN Ret(h, this, <<>>) ELSE CallThunk(fn, h)

\* this.or(optb) whatever the two are
Option_xor_AsOr(h, this, optb) == Option_or(h, this, optb)

Option_xor(h, this, optb) ==
    IF isSome(h, this) # isSome(h, optb)
    THEN Option_or(h, this, optb)
    ELSE Option_None(h)

\* this.map(fn).unwrap(): the Option that map makes is unwrapped and dropped
Option_mapOr(h, this, other, fn) ==
    IF isSome(h, this)
    THEN Then(Option_map(h, this, fn), LAMBDA h1, o : unwrapOption(h1, o))
    ELSE Ret(h, other, <<>>)

\* const d = other() ahead of the test
Option_mapOrElse_EagerDefault(h, this, other, fn) ==
    Then(CallThunk(other, h), LAMBDA h1, d :
         IF isSome(h1, this)
         THEN Then(Option_map(h1, this, fn), LAMBDA h2, o : unwrapOption(h2, o))
         ELSE Ret(h1, d, <<>>))

Option_mapOrElse(h, this, other, fn) ==
    IF isSome(h, this)
    THEN Then(Option_map(h, this, fn), LAMBDA h1, o : unwrapOption(h1, o))
    ELSE CallThunk(other, h)

Option_unwrapOr(h, this, other) ==
    IF isSome(h, this) THEN unwrapOption(h, this) ELSE Ret(h, other, <<>>)

Option_unwrapOrElse(h, this, fn) ==
    IF isSome(h, this) THEN unwrapOption(h, this) ELSE CallThunk(fn, h)

\* const error = errorFactory() ahead of the test
Option_okOrElse_Eager(h, this, errorFactory) ==
    Then(CallThunk(errorFactory, h), LAMBDA h1, error :
         IF isSome(h1, this)
         THEN Then(unwrapOption(h1, this), LAMBDA h2, v : Result_Ok(h2, v))
         ELSE Result_Err(h1, error))

Option_okOrElse(h, this, errorFactory) ==
    IF isSome(h, this)
    THEN Then(unwrapOption(h, this), LAMBDA h1, v : Result_Ok(h1, v))
    ELSE Then(CallThunk(errorFactory, h), LAMBDA h1, error : Result_Err(h1, error))

(***************************************************************************)
(* Result (subclass generation).                                           *)
(***************************************************************************)
Ok_ok(h, this) == Option_Some(h, h[this.n].value)

Ok_err(h, this) == Option_None(h)

Err_ok(h, this) == Option_None(h)

Err_err(h, this) == Option_Some(h, h[this.n].value)

Result_ok(h, this) ==
    IF isOk(h, this) THEN Option_Some(h, h[this.n].value) ELSE Option_None(h)

Result_err(h, this) ==
    IF isErr(h, this) THEN Option_Some(h, h[this.n].value) ELSE Option_None(h)

okResult(h, this) ==
    CASE h[this.n].cls = "Ok" -> Ok_ok(h, this)
      [] h[this.n].cls = "Err" -> Err_ok(h, this)
      [] OTHER -> Result_ok(h, this)

errResult(h, this) ==
    CASE h[this.n].cls = "Ok" -> Ok_err(h, this)
      [] h[this.n].cls = "Err" -> Err_err(h, this)
      [] OTHER -> Result_err(h, this)

Ok_unwrap(h, this) == Ret(h, h[this.n].value, <<>>)

\* throw new Error(...) in place of the value held
Err_unwrap_Wrapping(h, this) ==
    LET e == NewError(h, "Error", "") IN Thr(e.heap, e.out.val, <<>>)

\* throw this.value
Err_unwrap(h, this) == Thr(h, h[this.n].value, <<>>)

\* throw this.err().unwrap()
Result_unwrap(h, this) ==
    IF isOk(h, this)
    THEN Ret(h, h[this.n].value, <<>>)
    ELSE Then(Then(errResult(h, this), LAMBDA h1, o : unwrapOption(h1, o)),
              LAMBDA h2, e : Thr(h2, e, <<>>))

unwrapResult(h, this) ==
    CASE h[this.n].cls = "Ok" -> Ok_unwrap(h, this)
      [] h[this.n].cls = "Err" -> Err_unwrap(h, this)
      [] OTHER -> Result_unwrap(h, this)

\* catch (error) { if (error instanceof Error) return this.Err(error); throw error }
Result_unsafeFrom_ErrorsOnly(h, fn) ==
    Catch(Then(CallThunk(fn, h), LAMBDA h1, v : Result_Ok(h1, v)),
          LAMBDA h1, error :
              IF InstanceOf(h1, error, "Error")
              THEN Result_Err(h1, error)
              ELSE Thr(h1, error, <<>>))

Result_unsafeFrom(h, fn) ==
    Catch(Then(CallThunk(fn, h), LAMBDA h1, v : Result_Ok(h1, v)),
          LAMBDA h1, error : Result_Err(h1, error))

\* error.constructor === expectedError in place of instanceof
Result_from_ExactKind(h, expectedErrors, fn) ==
    Catch(Then(CallThunk(fn, h), LAMBDA h1, v : Result_Ok(h1, v)),
          LAMBDA h1, error :
              IF /\ IsRef(error)
                 /\ \E i \in DOMAIN expectedErrors :
                        h1[error.n].cls = expectedErrors[i]
              THEN Result_Err(h1, error)
              ELSE Thr(h1, error, <<>>))

Result_from(h, expectedErrors, fn) ==
    Catch(Then(CallThunk(fn, h), LAMBDA h1, v : Result_Ok(h1, v)),
          LAMBDA h1, error :
              IF \E i \in DOMAIN expectedErrors :
                     InstanceOf(h1, error, expectedErrors[i])
              THEN Result_Err(h1, error)
              ELSE Thr(h1, error, <<>>))

\* The body of the async adapters; awaited is the outcome of `await fn()`:
\* the value the promise fulfilled with, or what it rejected with, or what
\* fn threw before it returned a promise.
\* a second await of fn() in the catch block
Result_unsafeFromAsync_Retrying(h, awaited) ==
    Catch(Then(awaited, LAMBDA h1, v : Result_Ok(h1, v)),
          LAMBDA h1, error :
              Catch(Then([awaited EXCEPT !.heap = h1], LAMBDA h2, v : Result_Ok(h2, v)),
                    LAMBDA h2, error2 : Result_Err(h2, error2)))

Result_unsafeFromAsync(h, awaited) ==
    Catch(Then(awaited, LAMBDA h1, v : Result_Ok(h1, v)),
          LAMBDA h1, error : Result_Err(h1, error))

\* the catch block of unsafeFromAsync in fromAsync
Result_fromAsync_Swallowing(h, expectedErrors, awaited) ==
    Catch(Then(awaited, LAMBDA h1, v : Result_Ok(h1, v)),
          LAMBDA h1, error : Result_Err(h1, error))

Result_fromAsync(h, expectedErrors, awaited) ==
    Catch(Then(awaited, LAMBDA h1, v : Result_Ok(h1, v)),
          LAMBDA h1, error :
              IF \E i \in DOMAIN expectedErrors :
                     InstanceOf(h1, error, expectedErrors[i])
              THEN Result_Err(h1, error)
              ELSE Thr(h1, error, <<>>))

\* this.value = fn(this.value); return this
Result_map_InPlace(h, this, fn) ==
    IF isOk(h, this)
    THEN Then(unwrapResult(h, this), LAMBDA h1, v :
         Then(ApplyFn(fn, h1, <<v>>), LAMBDA h2, u :
              Ret([h2 EXCEPT ![this.n].value = u], this, <<>>)))
    ELSE Ret(h, this, <<>>)

Result_map(h, this, fn) ==
    IF isOk(h, this)
    THEN Then(unwrapResult(h, this), LAMBDA h1, v :
         Then(ApplyFn(fn, h1, <<v>>), LAMBDA h2, u : Result_Ok(h2, u)))
    ELSE Ret(h, this, <<>>)

\* fn applied on the Ok side as well
Result_mapErr_BothSides(h, this, fn) ==
    IF isErr(h, this)
    THEN Then(errResult(h, this), LAMBDA h1, o :
         Then(unwrapOption(h1, o), LAMBDA h2, e :
         Then(ApplyFn(fn, h2, <<e>>), LAMBDA h3, u : Result_Err(h3, u))))
    ELSE Result_map(h, this, fn)

Result_mapErr(h, this, fn) ==
    IF isErr(h, this)
    THEN Then(errResult(h, this), LAMBDA h1, o :
         Then(unwrapOption(h1, o), LAMBDA h2, e :
         Then(ApplyFn(fn, h2, <<e>>), LAMBDA h3, u : Result_Err(h3, u))))
    ELSE Ret(h, this, <<>>)

Result_flatten(h, this) ==
    IF isErr(h, this)
    THEN Ret(h, this, <<>>)
    ELSE Then(unwrapResult(h, this), LAMBDA h1, value :
              IF InstanceOf(h1, value, "Result")
              THEN Ret(h1, value, <<>>)
              ELSE Ret(h1, this, <<>>))

Result_mapOr(h, this, other, fn) ==
    IF isOk(h, this)
    THEN Then(Result_map(h, this, fn), LAMBDA h1, r : unwrapResult(h1, r))
    ELSE Ret(h, other, <<>>)

\* other(this.err().unwrap())
Result_mapOrElse(h, this, other, fn) ==
    IF isOk(h, this)
    THEN Then(Result_map(h, this, fn), LAMBDA h1, r : unwrapResult(h1, r))
    ELSE Then(errResult(h, this), LAMBDA h1, o :
         Then(unwrapOption(h1, o), LAMBDA h2, e : ApplyFn(other, h2, <<e>>)))

Result_and(h, this, res) ==
    IF isOk(h, this) THEN Ret(h, res, <<>>) ELSE Ret(h, this, <<>>)

Result_or(h, this, res) ==
    IF isOk(h, this) THEN Ret(h, this, <<>>) ELSE Ret(h, res, <<>>)

Result_orElse(h, this, fn) ==
    IF isOk(h, this) THEN Ret(h, this, <<>>) ELSE CallThunk(fn, h)

(***************************************************************************)
(* Option and Result (single-class generation).                            *)
(***************************************************************************)
\* this._value.inner
Inner(h, this) == h[this.n]._value.inner

\* typeof v === "object" && v !== null && Reflect.has(v, sym)
IsObjectWith(h, v, sym) == IsRef(v) /\ ReflectHas(h, v, sym)

\* (v as any).inner for an object v: the instances, arrays and errors of the
\* heap have no own property `inner` (an instance keeps its payload in
\* `_value`, not on itself), so the read gives undefined.
ReadInner(h, v) == Undefined

OptionT_expect(h, this, errorMsg) ==
    IF OptionT_isSome(h, this)
    THEN Ret(h, Inner(h, this), <<>>)
    ELSE LET e == NewError(h, "Error", errorMsg) IN Thr(e.heap, e.out.val, <<>>)

\* the message, written without its backquotes
OptionT_unwrap(h, this) ==
    OptionT_expect(h, this, "called Option.unwrap() on a None value")

OptionT_unwrapOrUndefined(h, this) ==
    IF OptionT_isSome(h, this) THEN Ret(h, Inner(h, this), <<>>)
    ELSE Ret(h, Undefined, <<>>)

OptionT_map(h, this, fn) ==
    IF OptionT_isSome(h, this)
    THEN Then(ApplyFn(fn, h, <<Inner(h, this)>>), LAMBDA h1, u : OptionT_Some(h1, u))
    ELSE OptionT_None(h)

OptionT_flatten(h, this) ==
    IF OptionT_isSome(h, this) /\ IsObjectWith(h, Inner(h, this), "SYM_SOME")
    THEN Ret(h, ReadInner(h, Inner(h, this)), <<>>)
    ELSE Ret(h, this, <<>>)

OptionT_okOr(h, this, error) ==
    IF OptionT_isSome(h, this)
    THEN ResultT_Ok(h, Inner(h, this))
    ELSE ResultT_Err(h, error)

ResultT_from(h, fn) ==
    Catch(Then(CallThunk(fn, h), LAMBDA h1, v : ResultT_Ok(h1, v)),
          LAMBDA h1, error : ResultT_Err(h1, error))

ResultT_fromAsync(h, awaited) ==
    Catch(Then(awaited, LAMBDA h1, v : ResultT_Ok(h1, v)),
          LAMBDA h1, error : ResultT_Err(h1, error))

\* throw this._value.inner
ResultT_unwrap(h, this) ==
    IF ResultT_isOk(h, this)
    THEN Ret(h, Inner(h, this), <<>>)
    ELSE Thr(h, Inner(h, this), <<>>)

\* try { return Result.Ok(fn(inner)) } catch (error) { return Result.Err(error) }
ResultT_map_Capturing(h, this, fn) ==
    IF ResultT_isOk(h, this)
    THEN Catch(Then(ApplyFn(fn, h, <<Inner(h, this)>>), LAMBDA h1, u : ResultT_Ok(h1, u)),
               LAMBDA h1, error : ResultT_Err(h1, error))
    ELSE Ret(h, this, <<>>)

ResultT_map(h, this, fn) ==
    IF ResultT_isOk(h, this)
    THEN Then(ApplyFn(fn, h, <<Inner(h, this)>>), LAMBDA h1, u : ResultT_Ok(h1, u))
    ELSE Ret(h, this, <<>>)

ResultT_mapErr(h, this, fn) ==
    IF ResultT_isErr(h, this)
    THEN Then(ApplyFn(fn, h, <<Inner(h, this)>>), LAMBDA h1, u : ResultT_Err(h1, u))
    ELSE Ret(h, this, <<>>)

ResultT_flatten(h, this) ==
    IF ResultT_isOk(h, this) /\ IsObjectWith(h, Inner(h, this), "SYM_OK")
    THEN Ret(h, ReadInner(h, Inner(h, this)), <<>>)
    ELSE Ret(h, this, <<>>)

(***************************************************************************)
(* Either.                                                                 *)
(***************************************************************************)
Left_expectLeft(h, this, message) == Ret(h, h[this.n].value, <<>>)

Left_expectRight(h, this, message) ==
    LET e == NewError(h, "Error", message) IN Thr(e.heap, e.out.val, <<>>)

\* return this.value on the wrong side
Right_expectLeft_ReturnsPayload(h, this, message) == Ret(h, h[this.n].value, <<>>)

Right_expectLeft(h, this, message) ==
    LET e == NewError(h, "Error", message) IN Thr(e.heap, e.out.val, <<>>)

Right_expectRight(h, this, message) == Ret(h, h[this.n].value, <<>>)

Either_expectLeft(h, this, message) ==
    IF isLeft(h, this)
    THEN Ret(h, h[this.n].value, <<>>)
    ELSE LET e == NewError(h, "Error", message) IN Thr(e.heap, e.out.val, <<>>)

Either_expectRight(h, this, message) ==
    IF isRight(h, this)
    THEN Ret(h, h[this.n].value, <<>>)
    ELSE LET e == NewError(h, "Error", message) IN Thr(e.heap, e.out.val, <<>>)

expectLeft(h, this, message) ==
    CASE h[this.n].cls = "Left" -> Left_expectLeft(h, this, message)
      [] h[this.n].cls = "Right" -> Right_expectLeft(h, this, message)
      [] OTHER -> Either_expectLeft(h, this, message)

expectRight(h, this, message) ==
    CASE h[this.n].cls = "Left" -> Left_expectRight(h, this, message)
      [] h[this.n].cls = "Right" -> Right_expectRight(h, this, message)
      [] OTHER -> Either_expectRight(h, this, message)

Left_unwrapLeft(h, this) == Ret(h, h[this.n].value, <<>>)

Left_unwrapRight(h, this) ==
    expectRight(h, this, "Tried to right-unwrap a left value")

Right_unwrapLeft(h, this) ==
    expectLeft(h, this, "Tried to left-unwrap a right value")

Right_unwrapRight(h, this) == Ret(h, h[this.n].value, <<>>)

Either_unwrapLeft(h, this) ==
    expectLeft(h, this, "Tried to left-unwrap a right value")

Either_unwrapRight(h, this) ==
    expectRight(h, this, "Tried to right-unwrap a left value")

unwrapLeft(h, this) ==
    CASE h[this.n].cls = "Left" -> Left_unwrapLeft(h, this)
      [] h[this.n].cls = "Right" -> Right_unwrapLeft(h, this)
      [] OTHER -> Either_unwrapLeft(h, this)

unwrapRight(h, this) ==
    CASE h[this.n].cls = "Left" -> Left_unwrapRight(h, this)
      [] h[this.n].cls = "Right" -> Right_unwrapRight(h, this)
      [] OTHER -> Either_unwrapRight(h, this)

Either_map(h, this, fn) ==
    IF isLeft(h, this)
    THEN Then(unwrapLeft(h, this), LAMBDA h1, v :
         Then(ApplyFn(fn, h1, <<v>>), LAMBDA h2, u : Either_Left(h2, u)))
    ELSE Then(unwrapRight(h, this), LAMBDA h1, v :
         Then(ApplyFn(fn, h1, <<v>>), LAMBDA h2, u : Either_Right(h2, u)))

\* onRight on a Left and onLeft on a Right
Either_mapEither_Crossed(h, this, onLeft, onRight) ==
    IF isLeft(h, this)
    THEN Then(unwrapLeft(h, this), LAMBDA h1, v :
         Then(ApplyFn(onRight, h1, <<v>>), LAMBDA h2, u : Either_Left(h2, u)))
    ELSE Then(unwrapRight(h, this), LAMBDA h1, v :
         Then(ApplyFn(onLeft, h1, <<v>>), LAMBDA h2, u : Either_Right(h2, u)))

Either_mapEither(h, this, onLeft, onRight) ==
    IF isLeft(h, this)
    THEN Then(unwrapLeft(h, this), LAMBDA h1, v :
         Then(ApplyFn(onLeft, h1, <<v>>), LAMBDA h2, u : Either_Left(h2, u)))
    ELSE Then(unwrapRight(h, this), LAMBDA h1, v :
         Then(ApplyFn(onRight, h1, <<v>>), LAMBDA h2, u : Either_Right(h2, u)))

\* fn applied on the Right side as well
Either_mapLeft_BothSides(h, this, fn) == Either_map(h, this, fn)

Either_mapLeft(h, this, fn) ==
    IF isLeft(h, this)
    THEN Then(unwrapLeft(h, this), LAMBDA h1, v :
         Then(ApplyFn(fn, h1, <<v>>), LAMBDA h2, u : Either_Left(h2, u)))
    ELSE Then(unwrapRight(h, this), LAMBDA h1, v : Either_Right(h1, v))

Either_mapRight(h, this, fn) ==
    IF isLeft(h, this)
    THEN Then(unwrapLeft(h, this), LAMBDA h1, v : Either_Left(h1, v))
    ELSE Then(unwrapRight(h, this), LAMBDA h1, v :
         Then(ApplyFn(fn, h1, <<v>>), LAMBDA h2, u : Either_Right(h2, u)))

\* Either.Left(this.unwrapLeft()) on a Left: the side kept
Either_flip_KeepsSide(h, this) ==
    IF isLeft(h, this)
    THEN Then(unwrapLeft(h, this), LAMBDA h1, v : Either_Left(h1, v))
    ELSE Then(unwrapRight(h, this), LAMBDA h1, v : Either_Right(h1, v))

Either_flip(h, this) ==
    IF isLeft(h, this)
    THEN Then(unwrapLeft(h, this), LAMBDA h1, v : Either_Right(h1, v))
    ELSE Then(unwrapRight(h, this), LAMBDA h1, v : Either_Left(h1, v))

Either_eitherWith(h, this, ctx, onLeft, onRight) ==
    IF isLeft(h, this)
    THEN Then(unwrapLeft(h, this), LAMBDA h1, v : ApplyFn(onLeft, h1, <<v, ctx>>))
    ELSE Then(unwrapRight(h, this), LAMBDA h1, v : ApplyFn(onRight, h1, <<v, ctx>>))

Either_mapEitherWith(h, this, ctx, onLeft, onRight) ==
    IF isLeft(h, this)
    THEN Then(unwrapLeft(h, this), LAMBDA h1, v :
         Then(ApplyFn(onLeft, h1, <<v, ctx>>), LAMBDA h2, u : Either_Left(h2, u)))
    ELSE Then(unwrapRight(h, this), LAMBDA h1, v :
         Then(ApplyFn(onRight, h1, <<v, ctx>>), LAMBDA h2, u : Either_Right(h2, u)))

Either_mapLeftWith(h, this, ctx, fn) ==
    IF isLeft(h, this)
    THEN Then(unwrapLeft(h, this), LAMBDA h1, v :
         Then(ApplyFn(fn, h1, <<v, ctx>>), LAMBDA h2, u : Either_Left(h2, u)))
    ELSE Then(unwrapRight(h, this), LAMBDA h1, v : Either_Right(h1, v))

Either_mapRightWith(h, this, ctx, fn) ==
    IF isLeft(h, this)
    THEN Then(unwrapLeft(h, this), LAMBDA h1, v : Either_Left(h1, v))
    ELSE Then(unwrapRight(h, this), LAMBDA h1, v :
         Then(ApplyFn(fn, h1, <<v, ctx>>), LAMBDA h2, u : Either_Right(h2, u)))

\* Option.Some(this.unwrapLeft()) whichever the side
Either_left_Always(h, this) ==
    Option_Some(h, h[this.n].value)

Either_left(h, this) ==
    IF isLeft(h, this)
    THEN Then(unwrapLeft(h, this), LAMBDA h1, v : Option_Some(h1, v))
    ELSE Option_None(h)

Either_right(h, this) ==
    IF isRight(h, this)
    THEN Then(unwrapRight(h, this), LAMBDA h1, v : Option_Some(h1, v))
    ELSE Option_None(h)

Either_leftOr(h, this, defaultValue) ==
    IF isLeft(h, this) THEN unwrapLeft(h, this) ELSE Ret(h, defaultValue, <<>>)

Either_leftOrElse(h, this, fn) ==
    IF isLeft(h, this) THEN unwrapLeft(h, this) ELSE CallThunk(fn, h)

Either_rightOr(h, this, defaultValue) ==
    IF isRight(h, this) THEN unwrapRight(h, this) ELSE Ret(h, defaultValue, <<>>)

Either_rightOrElse(h, this, fn) ==
    IF isRight(h, this) THEN unwrapRight(h, this) ELSE CallThunk(fn, h)

(***************************************************************************)
(* Option.ofNullable, in both generations.  The falsy values that are      *)
(* neither null nor undefined: 0, the empty string, false and NaN.         *)
(***************************************************************************)
EmptyString == [k |-> "string", n |-> 0]

NaN == [k |-> "nan", n |-> 0]

Falsy == {Num(0), EmptyString, Bool(FALSE), NaN}

\* test !value
Option_ofNullable_Falsy(h, value) ==
    IF value \in {Undefined, Null} \cup Falsy THEN Option_None(h) ELSE Option_Some(h, value)

Option_ofNullable(h, value) ==
    IF value = Undefined \/ value = Null THEN Option_None(h) ELSE Option_Some(h, value)

OptionT_ofNullable(h, value) ==
    IF value = Undefined \/ value = Null THEN OptionT_None(h) ELSE OptionT_Some(h, value)

(***************************************************************************)
(* Predicate calls: isSomeAnd, filter, isOkAnd, isLeftAnd, isRightAnd.     *)
(***************************************************************************)
\* the predicates callers pass in: (v) => !v and (v) => { throw v }
Predicates == {"not", "raise"}

\* what a conditional makes of a value
Truthy(v) == Not(v) = Bool(FALSE)

\* this.isSome() && predicate(this.unwrap())
Option_isSomeAnd(h, this, predicate) ==
    IF isSome(h, this)
    THEN Then(unwrapOption(h, this), LAMBDA h1, v : ApplyFn(predicate, h1, <<v>>))
    ELSE Ret(h, Bool(FALSE), <<>>)

\* this.isSomeAnd(predicate) ? Option.Some(this.unwrap()) : Option.None()
Option_filter_NewSome(h, this, predicate) ==
    Then(Option_isSomeAnd(h, this, predicate), LAMBDA h1, b :
         IF Truthy(b) THEN Option_Some(h1, h1[this.n].value) ELSE Option_None(h1))

Option_filter(h, this, predicate) ==
    Then(Option_isSomeAnd(h, this, predicate), LAMBDA h1, b :
         IF Truthy(b) THEN Ret(h1, this, <<>>) ELSE Option_None(h1))

\* this.isSome() && predicate(this._value.inner)
OptionT_isSomeAnd(h, this, predicate) ==
    IF OptionT_isSome(h, this)
    THEN ApplyFn(predicate, h, <<Inner(h, this)>>)
    ELSE Ret(h, Bool(FALSE), <<>>)

OptionT_filter(h, this, predicate) ==
    Then(OptionT_isSomeAnd(h, this, predicate), LAMBDA h1, b :
         IF Truthy(b) THEN Ret(h1, this, <<>>) ELSE OptionT_None(h1))

Result_isOkAnd(h, this, predicate) ==
    IF isOk(h, this)
    THEN Then(unwrapResult(h, this), LAMBDA h1, v : ApplyFn(predicate, h1, <<v>>))
    ELSE Ret(h, Bool(FALSE), <<>>)

ResultT_isOkAnd(h, this, predicate) ==
    IF ResultT_isOk(h, this)
    THEN ApplyFn(predicate, h, <<Inner(h, this)>>)
    ELSE Ret(h, Bool(FALSE), <<>>)

Either_isLeftAnd(h, this, predicate) ==
    IF isLeft(h, this)
    THEN Then(unwrapLeft(h, this), LAMBDA h1, v : ApplyFn(predicate, h1, <<v>>))
    ELSE Ret(h, Bool(FALSE), <<>>)

Either_isRightAnd(h, this, predicate) ==
    IF isRight(h, this)
    THEN Then(unwrapRight(h, this), LAMBDA h1, v : ApplyFn(predicate, h1, <<v>>))
    ELSE Ret(h, Bool(FALSE), <<>>)

(***************************************************************************)
(* andThen and flatMap.  The callbacks return an Option or a Result:       *)
(* (v) => Option.Some(v), (v) => Option.None(), (v) => Result.Ok(v),       *)
(* (v) => Result.Err(v), and (v) => { throw v }.                           *)
(***************************************************************************)
OptionBinders == {"some", "none", "raise"}

ResultBinders == {"ok", "err", "raise"}

ApplyBinder(fn, h, args) ==
    LET call == <<[fn |-> fn, args |-> args]>>
        body == CASE fn = "some" -> Option_Some(h, args[1])
                  [] fn = "none" -> Option_None(h)
                  [] fn = "ok" -> Result_Ok(h, args[1])
                  [] fn = "err" -> Result_Err(h, args[1])
                  [] OTHER -> Thr(h, args[1], <<>>)
    IN [body EXCEPT !.calls = call]

\* this.isSome() ? fn(this) : Option.None()
Option_andThen_PassesThis(h, this, fn) ==
    IF isSome(h, this) THEN ApplyBinder(fn, h, <<this>>) ELSE Option_None(h)

Option_andThen(h, this, fn) ==
    IF isSome(h, this)
    THEN Then(unwrapOption(h, this), LAMBDA h1, v : ApplyBinder(fn, h1, <<v>>))
    ELSE Option_None(h)

Option_flatMap(h, this, fn) == Option_andThen(h, this, fn)

Result_andThen(h, this, fn) ==
    IF isOk(h, this)
    THEN Then(unwrapResult(h, this), LAMBDA h1, v : ApplyBinder(fn, h1, <<v>>))
    ELSE Ret(h, this, <<>>)

Result_flatMap(h, this, fn) == Result_andThen(h, this, fn)

Either_either(h, this, onLeft, onRight) ==
    IF isLeft(h, this)
    THEN Then(unwrapLeft(h, this), LAMBDA h1, v : ApplyFn(onLeft, h1, <<v>>))
    ELSE Then(unwrapRight(h, this), LAMBDA h1, v : ApplyFn(onRight, h1, <<v>>))

(***************************************************************************)
(* State.  last: the library call made last, with its receiver, arguments, *)
(* outcome and callback calls.  task: the asynchronous adapter call in     *)
(* flight, if any.                                                         *)
(***************************************************************************)
NoOutcome == [kind |-> "return", val |-> Undefined]

NoCall ==
    [op |-> "", this |-> Undefined, args |-> <<>>, fn |-> "", fn2 |-> "",
     expectedErrors |-> <<>>, thunk |-> NoThunk, before |-> 0,
     out |-> NoOutcome, calls |-> <<>>]

NoTask ==
    [phase |-> "idle", adapter |-> "", expectedErrors |-> <<>>,
     inner |-> "none", awaited |-> NoOutcome, calls |-> <<>>]

Init ==
    /\ impl \in {"subclass", "tagged"}
    /\ heap = <<>>
    /\ last = NoCall
    /\ task = NoTask

Options(h) == {Ref(a) : a \in {b \in DOMAIN h : h[b].cls \in {"Some", "None", "OptionT"}}}

Results(h) == {Ref(a) : a \in {b \in DOMAIN h : h[b].cls \in {"Ok", "Err", "ResultT"}}}

Eithers(h) == {Ref(a) : a \in {b \in DOMAIN h : h[b].cls \in {"Left", "Right"}}}

\* The Result an adapter in flight is going to allocate counts as allocated.
Reserved == IF task.phase = "awaiting" THEN 1 ELSE 0

\* The caller is between two calls: it holds no outcome it has yet to look at.
Ready == last = NoCall

\* The objects a call made and let go of before it returned, those its
\* outcome does not lead to: the Option of `this.err()` in mapErr, the Option
\* of `this.map(fn)` in mapOr. The caller cannot hold them.
Dropped(r) ==
    LET made == (Len(heap) + 1)..Len(r.heap)
        v == r.out.val
        held == IF ~IsRef(v) THEN {}
                ELSE {v.n}
                     \cup {w.n : w \in {x \in {r.heap[v.n].value, r.heap[v.n]._value.inner} :
                                             IsRef(x)}}
    IN Cardinality(made \ held)

\* The call c ran to its end with result r: the heap is r's heap and the
\* caller holds the outcome.
Return(c, r) ==
    /\ Ready
    /\ Len(r.heap) - Dropped(r) + Reserved <= MaxHeap
    /\ heap' = r.heap
    /\ last' = [c EXCEPT !.before = Len(heap), !.out = r.out, !.calls = r.calls]
    /\ UNCHANGED impl

Commit(op, this, args, fn, fn2, r) ==
    /\ Return([NoCall EXCEPT !.op = op, !.this = this, !.args = args, !.fn = fn,
                             !.fn2 = fn2], r)
    /\ UNCHANGED task

Answer(op, this, b) == Commit(op, this, <<>>, "", "", Ret(heap, Bool(b), <<>>))

\* The caller has looked at the outcome and goes on.
Continue ==
    /\ ~Ready
    /\ last' = NoCall
    /\ task' = IF task.phase = "settled" THEN NoTask ELSE task
    /\ UNCHANGED <<impl, heap>>

(***************************************************************************)
(* Constructor calls.                                                      *)
(***************************************************************************)
DoSome ==
    \E v \in Vals(heap) :
        Commit("Some", Undefined, <<v>>, "", "",
               IF impl = "subclass" THEN Option_Some(heap, v) ELSE OptionT_Some(heap, v))

DoNone ==
    Commit("None", Undefined, <<>>, "", "",
           IF impl = "subclass" THEN Option_None(heap) ELSE OptionT_None(heap))

DoOk ==
    \E v \in Vals(heap) :
        Commit("Ok", Undefined, <<v>>, "", "",
               IF impl = "subclass" THEN Result_Ok(heap, v) ELSE ResultT_Ok(heap, v))

DoErr ==
    \E v \in Vals(heap) :
        Commit("Err", Undefined, <<v>>, "", "",
               IF impl = "subclass" THEN Result_Err(heap, v) ELSE ResultT_Err(heap, v))

DoLeft ==
    /\ impl = "subclass"
    /\ \E v \in Vals(heap) : Commit("Left", Undefined, <<v>>, "", "", Either_Left(heap, v))

DoRight ==
    /\ impl = "subclass"
    /\ \E v \in Vals(heap) : Commit("Right", Undefined, <<v>>, "", "", Either_Right(heap, v))

\* the caller makes an error: new Error()
DoNewError == Commit("new", Undefined, <<>>, "", "", NewError(heap, "Error", ""))

(***************************************************************************)
(* Predicate calls.                                                        *)
(***************************************************************************)
DoIsSome == \E o \in Options(heap) : Answer("isSome", o, isSome(heap, o))

DoIsNone == \E o \in Options(heap) : Answer("isNone", o, isNone(heap, o))

DoIsOk == \E r \in Results(heap) : Answer("isOk", r, isOk(heap, r))

DoIsErr == \E r \in Results(heap) : Answer("isErr", r, isErr(heap, r))

DoIsLeft == \E e \in Eithers(heap) : Answer("isLeft", e, isLeft(heap, e))

DoIsRight == \E e \in Eithers(heap) : Answer("isRight", e, isRight(heap, e))

(***************************************************************************)
(* Option calls.                                                           *)
(***************************************************************************)
DoOptionUnwrap ==
    \E o \in Options(heap) :
        Commit("Option.unwrap", o, <<>>, "", "",
               IF impl = "subclass" THEN unwrapOption(heap, o) ELSE OptionT_unwrap(heap, o))

DoOptionMap ==
    \E o \in Options(heap), fn \in Fns :
        Commit("Option.map", o, <<>>, fn, "",
               IF impl = "subclass" THEN Option_map(heap, o, fn)
               ELSE OptionT_map(heap, o, fn))

DoOptionFlatten ==
    \E o \in Options(heap) :
        Commit("Option.flatten", o, <<>>, "", "",
               IF impl = "subclass" THEN Option_flatten(heap, o)
               ELSE OptionT_flatten(heap, o))

DoOptionOkOr ==
    \E o \in Options(heap), error \in Vals(heap) :
        Commit("Option.okOr", o, <<error>>, "", "",
               IF impl = "subclass" THEN Option_okOr(heap, o, error)
               ELSE OptionT_okOr(heap, o, error))

(***************************************************************************)
(* Result calls.                                                           *)
(***************************************************************************)
DoResultUnwrap ==
    \E r \in Results(heap) :
        Commit("Result.unwrap", r, <<>>, "", "",
               IF impl = "subclass" THEN unwrapResult(heap, r) ELSE ResultT_unwrap(heap, r))

DoResultMap ==
    \E r \in Results(heap), fn \in Fns :
        Commit("Result.map", r, <<>>, fn, "",
               IF impl = "subclass" THEN Result_map(heap, r, fn)
               ELSE ResultT_map(heap, r, fn))

DoResultMapErr ==
    \E r \in Results(heap), fn \in Fns :
        Commit("Result.mapErr", r, <<>>, fn, "",
               IF impl = "subclass" THEN Result_mapErr(heap, r, fn)
               ELSE ResultT_mapErr(heap, r, fn))

DoResultFlatten ==
    \E r \in Results(heap) :
        Commit("Result.flatten", r, <<>>, "", "",
               IF impl = "subclass" THEN Result_flatten(heap, r)
               ELSE ResultT_flatten(heap, r))

(***************************************************************************)
(* Either calls.                                                           *)
(***************************************************************************)
DoEitherMap ==
    \E e \in Eithers(heap), fn \in Fns :
        Commit("Either.map", e, <<>>, fn, "", Either_map(heap, e, fn))

DoEitherMapEither ==
    \E e \in Eithers(heap), onLeft \in Fns, onRight \in Fns :
        Commit("Either.mapEither", e, <<>>, onLeft, onRight,
               Either_mapEither(heap, e, onLeft, onRight))

DoEitherMapLeft ==
    \E e \in Eithers(heap), fn \in Fns :
        Commit("Either.mapLeft", e, <<>>, fn, "", Either_mapLeft(heap, e, fn))

DoEitherMapRight ==
    \E e \in Eithers(heap), fn \in Fns :
        Commit("Either.mapRight", e, <<>>, fn, "", Either_mapRight(heap, e, fn))

(***************************************************************************)
(* Combinator calls (subclass generation).                                 *)
(***************************************************************************)
\* a call that takes a function of no argument
CommitWith(op, this, args, fn, thunk, r) ==
    /\ Return([NoCall EXCEPT !.op = op, !.this = this, !.args = args, !.fn = fn,
                             !.thunk = thunk], r)
    /\ UNCHANGED task

\* the functions of no argument that return a value of the set S, or throw
ThunksInto(S, h) == {fn \in Thunks(h) : fn.does = "return" => fn.val \in S}

DoOptionAnd ==
    /\ impl = "subclass"
    /\ \E o \in Options(heap), optb \in Options(heap) :
           Commit("Option.and", o, <<optb>>, "", "", Option_and(heap, o, optb))

DoOptionOr ==
    /\ impl = "subclass"
    /\ \E o \in Options(heap), optb \in Options(heap) :
           Commit("Option.or", o, <<optb>>, "", "", Option_or(heap, o, optb))

DoOptionOrElse ==
    /\ impl = "subclass"
    /\ \E o \in Options(heap), fn \in ThunksInto(Options(heap), heap) :
           CommitWith("Option.orElse", o, <<>>, "", fn, Option_orElse(heap, o, fn))

DoOptionXor ==
    /\ impl = "subclass"
    /\ \E o \in Options(heap), optb \in Options(heap) :
           Commit("Option.xor", o, <<optb>>, "", "", Option_xor(heap, o, optb))

DoResultAnd ==
    /\ impl = "subclass"
    /\ \E r \in Results(heap), res \in Results(heap) :
           Commit("Result.and", r, <<res>>, "", "", Result_and(heap, r, res))

DoResultOr ==
    /\ impl = "subclass"
    /\ \E r \in Results(heap), res \in Results(heap) :
           Commit("Result.or", r, <<res>>, "", "", Result_or(heap, r, res))

DoResultOrElse ==
    /\ impl = "subclass"
    /\ \E r \in Results(heap), fn \in ThunksInto(Results(heap), heap) :
           CommitWith("Result.orElse", r, <<>>, "", fn, Result_orElse(heap, r, fn))

\* the messages a caller hands to expect
Messages == {"", "no value"}

DoOptionExpect ==
    /\ impl = "subclass"
    /\ \E o \in Options(heap), errorMsg \in Messages :
           Commit("Option.expect", o, <<errorMsg>>, "", "",
                  expectOption(heap, o, errorMsg))

DoOptionUnwrapOr ==
    /\ impl = "subclass"
    /\ \E o \in Options(heap), other \in Vals(heap) :
           Commit("Option.unwrapOr", o, <<other>>, "", "",
                  Option_unwrapOr(heap, o, other))

DoOptionUnwrapOrElse ==
    /\ impl = "subclass"
    /\ \E o \in Options(heap), fn \in Thunks(heap) :
           CommitWith("Option.unwrapOrElse", o, <<>>, "", fn,
                      Option_unwrapOrElse(heap, o, fn))

DoOptionUnwrapOrUndefined ==
    /\ impl = "subclass"
    /\ \E o \in Options(heap) :
           Commit("Option.unwrapOrUndefined", o, <<>>, "", "",
                  unwrapOrUndefined(heap, o))

DoOptionOkOrElse ==
    /\ impl = "subclass"
    /\ \E o \in Options(heap), errorFactory \in Thunks(heap) :
           CommitWith("Option.okOrElse", o, <<>>, "", errorFactory,
                      Option_okOrElse(heap, o, errorFactory))

DoOptionMapOr ==
    /\ impl = "subclass"
    /\ \E o \in Options(heap), other \in Vals(heap), fn \in Fns :
           Commit("Option.mapOr", o, <<other>>, fn, "",
                  Option_mapOr(heap, o, other, fn))

DoOptionMapOrElse ==
    /\ impl = "subclass"
    /\ \E o \in Options(heap), other \in Thunks(heap), fn \in Fns :
           CommitWith("Option.mapOrElse", o, <<>>, fn, other,
                      Option_mapOrElse(heap, o, other, fn))

DoResultMapOr ==
    /\ impl = "subclass"
    /\ \E r \in Results(heap), other \in Vals(heap), fn \in Fns :
           Commit("Result.mapOr", r, <<other>>, fn, "",
                  Result_mapOr(heap, r, other, fn))

DoResultMapOrElse ==
    /\ impl = "subclass"
    /\ \E r \in Results(heap), other \in Fns, fn \in Fns :
           Commit("Result.mapOrElse", r, <<>>, fn, other,
                  Result_mapOrElse(heap, r, other, fn))

DoEitherFlip ==
    \E e \in Eithers(heap) :
        Commit("Either.flip", e, <<>>, "", "", Either_flip(heap, e))

DoEitherEitherWith ==
    \E e \in Eithers(heap), ctx \in Vals(heap), onLeft \in Fns, onRight \in Fns :
        Commit("Either.eitherWith", e, <<ctx>>, onLeft, onRight,
               Either_eitherWith(heap, e, ctx, onLeft, onRight))

DoEitherMapEitherWith ==
    \E e \in Eithers(heap), ctx \in Vals(heap), onLeft \in Fns, onRight \in Fns :
        Commit("Either.mapEitherWith", e, <<ctx>>, onLeft, onRight,
               Either_mapEitherWith(heap, e, ctx, onLeft, onRight))

DoEitherMapLeftWith ==
    \E e \in Eithers(heap), ctx \in Vals(heap), fn \in Fns :
        Commit("Either.mapLeftWith", e, <<ctx>>, fn, "",
               Either_mapLeftWith(heap, e, ctx, fn))

DoEitherMapRightWith ==
    \E e \in Eithers(heap), ctx \in Vals(heap), fn \in Fns :
        Commit("Either.mapRightWith", e, <<ctx>>, fn, "",
               Either_mapRightWith(heap, e, ctx, fn))

(***************************************************************************)
(* Projection calls (subclass generation).                                 *)
(***************************************************************************)
\* r.ok()
DoResultOk ==
    /\ impl = "subclass"
    /\ \E r \in Results(heap) :
           Commit("Result.ok", r, <<>>, "", "", okResult(heap, r))

\* r.err()
DoResultErr ==
    /\ impl = "subclass"
    /\ \E r \in Results(heap) :
           Commit("Result.err", r, <<>>, "", "", errResult(heap, r))

DoEitherLeft ==
    \E e \in Eithers(heap) :
        Commit("Either.left", e, <<>>, "", "", Either_left(heap, e))

DoEitherRight ==
    \E e \in Eithers(heap) :
        Commit("Either.right", e, <<>>, "", "", Either_right(heap, e))

(***************************************************************************)
(* Either unwrapping calls.                                                *)
(***************************************************************************)
DoEitherExpectLeft ==
    \E e \in Eithers(heap), message \in Messages :
        Commit("Either.expectLeft", e, <<message>>, "", "",
               expectLeft(heap, e, message))

DoEitherExpectRight ==
    \E e \in Eithers(heap), message \in Messages :
        Commit("Either.expectRight", e, <<message>>, "", "",
               expectRight(heap, e, message))

DoEitherUnwrapLeft ==
    \E e \in Eithers(heap) :
        Commit("Either.unwrapLeft", e, <<>>, "", "", unwrapLeft(heap, e))

DoEitherUnwrapRight ==
    \E e \in Eithers(heap) :
        Commit("Either.unwrapRight", e, <<>>, "", "", unwrapRight(heap, e))

DoEitherLeftOr ==
    \E e \in Eithers(heap), defaultValue \in Vals(heap) :
        Commit("Either.leftOr", e, <<defaultValue>>, "", "",
               Either_leftOr(heap, e, defaultValue))

DoEitherRightOr ==
    \E e \in Eithers(heap), defaultValue \in Vals(heap) :
        Commit("Either.rightOr", e, <<defaultValue>>, "", "",
               Either_rightOr(heap, e, defaultValue))

DoEitherLeftOrElse ==
    \E e \in Eithers(heap), fn \in Thunks(heap) :
        CommitWith("Either.leftOrElse", e, <<>>, "", fn,
                   Either_leftOrElse(heap, e, fn))

DoEitherRightOrElse ==
    \E e \in Eithers(heap), fn \in Thunks(heap) :
        CommitWith("Either.rightOrElse", e, <<>>, "", fn,
                   Either_rightOrElse(heap, e, fn))

(***************************************************************************)
(* Option.ofNullable on every value on hand and on the falsy primitives.   *)
(***************************************************************************)
DoOfNullable ==
    \E value \in Vals(heap) \cup Falsy :
        Commit("Option.ofNullable", Undefined, <<value>>, "", "",
               IF impl = "subclass" THEN Option_ofNullable(heap, value)
               ELSE OptionT_ofNullable(heap, value))

(***************************************************************************)
(* Predicate calls.                                                        *)
(***************************************************************************)
DoOptionIsSomeAnd ==
    \E o \in Options(heap), predicate \in Predicates :
        Commit("Option.isSomeAnd", o, <<>>, predicate, "",
               IF impl = "subclass" THEN Option_isSomeAnd(heap, o, predicate)
               ELSE OptionT_isSomeAnd(heap, o, predicate))

DoOptionFilter ==
    \E o \in Options(heap), predicate \in Predicates :
        Commit("Option.filter", o, <<>>, predicate, "",
               IF impl = "subclass" THEN Option_filter(heap, o, predicate)
               ELSE OptionT_filter(heap, o, predicate))

DoResultIsOkAnd ==
    \E r \in Results(heap), predicate \in Predicates :
        Commit("Result.isOkAnd", r, <<>>, predicate, "",
               IF impl = "subclass" THEN Result_isOkAnd(heap, r, predicate)
               ELSE ResultT_isOkAnd(heap, r, predicate))

DoEitherIsLeftAnd ==
    \E e \in Eithers(heap), predicate \in Predicates :
        Commit("Either.isLeftAnd", e, <<>>, predicate, "",
               Either_isLeftAnd(heap, e, predicate))

DoEitherIsRightAnd ==
    \E e \in Eithers(heap), predicate \in Predicates :
        Commit("Either.isRightAnd", e, <<>>, predicate, "",
               Either_isRightAnd(heap, e, predicate))

(***************************************************************************)
(* andThen and flatMap calls.                                              *)
(***************************************************************************)
DoOptionAndThen ==
    /\ impl = "subclass"
    /\ \E o \in Options(heap), fn \in OptionBinders :
           Commit("Option.andThen", o, <<>>, fn, "", Option_andThen(heap, o, fn))

DoOptionFlatMap ==
    /\ impl = "subclass"
    /\ \E o \in Options(heap), fn \in OptionBinders :
           Commit("Option.flatMap", o, <<>>, fn, "", Option_flatMap(heap, o, fn))

DoResultAndThen ==
    /\ impl = "subclass"
    /\ \E r \in Results(heap), fn \in ResultBinders :
           Commit("Result.andThen", r, <<>>, fn, "", Result_andThen(heap, r, fn))

DoResultFlatMap ==
    /\ impl = "subclass"
    /\ \E r \in Results(heap), fn \in ResultBinders :
           Commit("Result.flatMap", r, <<>>, fn, "", Result_flatMap(heap, r, fn))

DoEitherEither ==
    \E e \in Eithers(heap), onLeft \in Fns, onRight \in Fns :
        Commit("Either.either", e, <<>>, onLeft, onRight,
               Either_either(heap, e, onLeft, onRight))

(***************************************************************************)
(* Adapter calls.                                                          *)
(***************************************************************************)
Range(q) == {q[i] : i \in DOMAIN q}

\* the sequences of at most n distinct elements of S
RECURSIVE DistinctSeqs(_, _)
DistinctSeqs(S, n) ==
    IF n = 0 THEN {<<>>}
    ELSE LET shorter == DistinctSeqs(S, n - 1)
         IN shorter \cup UNION {{Append(q, x) : x \in S \ Range(q)} : q \in shorter}

\* the lists of expected error constructors a caller passes
ExpectedLists == DistinctSeqs(ErrorKinds, MaxExpected)

Adapt(op, expectedErrors, fn, r) ==
    /\ Return([NoCall EXCEPT !.op = op, !.expectedErrors = expectedErrors,
                             !.thunk = fn], r)
    /\ UNCHANGED task

\* Result.unsafeFrom(fn); in the single-class generation it is Result.from(fn)
DoUnsafeFrom ==
    \E fn \in Thunks(heap) :
        Adapt("unsafeFrom", <<>>, fn,
              IF impl = "subclass" THEN Result_unsafeFrom(heap, fn)
              ELSE ResultT_from(heap, fn))

\* Result.from(expectedErrors, fn)
DoFrom ==
    /\ impl = "subclass"
    /\ \E expectedErrors \in ExpectedLists, fn \in Thunks(heap) :
           Adapt("from", expectedErrors, fn, Result_from(heap, expectedErrors, fn))

\* The async function runs up to its first await: it calls fn; if fn throws,
\* the catch block runs at once and the adapter's promise is settled when the
\* call returns; if fn returns a promise the adapter is suspended on it.
AsyncThunks(h) ==
    {fn \in Thunks(h) : fn.does # "return"}
    \cup {[does |-> "promise", val |-> Undefined, cls |-> ""]}

Body(adapter, h, expectedErrors, awaited) ==
    CASE adapter = "fromAsync" -> Result_fromAsync(h, expectedErrors, awaited)
      [] adapter = "unsafeFromAsync" /\ impl = "subclass" ->
             Result_unsafeFromAsync(h, awaited)
      [] OTHER -> ResultT_fromAsync(h, awaited)

StartAsync(adapter, expectedErrors, fn) ==
    /\ task.phase = "idle"
    /\ IF fn.does = "promise"
       THEN /\ Ready
            /\ Len(heap) + 1 <= MaxHeap
            /\ task' = [NoTask EXCEPT !.phase = "awaiting", !.adapter = adapter,
                                      !.expectedErrors = expectedErrors,
                                      !.inner = "pending",
                                      !.calls = <<[fn |-> "fn", args |-> <<>>]>>]
            /\ UNCHANGED <<impl, heap, last>>
       ELSE LET c == CallThunk(fn, heap)
                r == Body(adapter, c.heap, expectedErrors, c)
            IN /\ Return([NoCall EXCEPT !.op = adapter,
                                        !.expectedErrors = expectedErrors,
                                        !.thunk = fn], r)
               /\ task' = [NoTask EXCEPT !.phase = "settled", !.adapter = adapter,
                                         !.expectedErrors = expectedErrors,
                                         !.inner = "threw", !.awaited = c.out,
                                         !.calls = c.calls]

\* Result.unsafeFromAsync(fn); in the single-class generation Result.fromAsync(fn)
DoUnsafeFromAsync ==
    \E fn \in AsyncThunks(heap) : StartAsync("unsafeFromAsync", <<>>, fn)

\* Result.fromAsync(expectedErrors, fn)
DoFromAsync ==
    /\ impl = "subclass"
    /\ \E expectedErrors \in ExpectedLists, fn \in AsyncThunks(heap) :
           StartAsync("fromAsync", expectedErrors, fn)

\* The wrapped computation completes: its promise fulfils with a value, or
\* rejects with a value that exists already or with a new error.
Settle ==
    /\ task.phase = "awaiting"
    /\ task.inner = "pending"
    /\ \E fn \in Thunks(heap) :
           LET c == CallThunk(fn, heap)
           IN /\ Len(c.heap) + 1 <= MaxHeap
              /\ heap' = c.heap
              /\ task' = [task EXCEPT
                            !.inner = IF Returned(c) THEN "fulfilled" ELSE "rejected",
                            !.awaited = c.out]
    /\ UNCHANGED <<impl, last>>

\* Promise.race([fn(), timeout]) in place of fn(): the adapter goes on with a
\* rejection while the promise of fn is pending still
Resume_TimesOut ==
    /\ task.phase = "awaiting"
    /\ LET awaited == [heap |-> heap,
                       out |-> IF task.inner = "pending"
                               THEN [kind |-> "throw", val |-> Undefined]
                               ELSE task.awaited,
                       calls |-> <<>>]
           r == Body(task.adapter, heap, task.expectedErrors, awaited)
       IN /\ heap' = r.heap
          /\ last' = [NoCall EXCEPT !.op = task.adapter,
                                    !.expectedErrors = task.expectedErrors,
                                    !.before = Len(heap),
                                    !.out = r.out, !.calls = task.calls]
          /\ task' = [task EXCEPT !.phase = "settled"]
    /\ UNCHANGED impl

\* The adapter is resumed with the outcome of the promise it awaited, and
\* settles its own promise.
Resume ==
    /\ task.phase = "awaiting"
    /\ task.inner \in {"fulfilled", "rejected"}
    /\ LET awaited == [heap |-> heap, out |-> task.awaited, calls |-> <<>>]
           r == Body(task.adapter, heap, task.expectedErrors, awaited)
       IN /\ heap' = r.heap
          /\ last' = [NoCall EXCEPT !.op = task.adapter,
                                    !.expectedErrors = task.expectedErrors,
                                    !.before = Len(heap),
                                    !.out = r.out, !.calls = task.calls]
          /\ task' = [task EXCEPT !.phase = "settled"]
    /\ UNCHANGED impl

Next ==
    \/ Continue
    \/ DoSome \/ DoNone \/ DoOk \/ DoErr \/ DoLeft \/ DoRight \/ DoNewError
    \/ DoIsSome \/ DoIsNone \/ DoIsOk \/ DoIsErr \/ DoIsLeft \/ DoIsRight
    \/ DoOptionUnwrap \/ DoOptionMap \/ DoOptionFlatten \/ DoOptionOkOr
    \/ DoResultUnwrap \/ DoResultMap \/ DoResultMapErr \/ DoResultFlatten
    \/ DoEitherMap \/ DoEitherMapEither \/ DoEitherMapLeft \/ DoEitherMapRight

Spec == Init /\ [][Next]_vars

\* The synchronous adapters, with the errors their callers make.
NextAdapters ==
    \/ Continue
    \/ DoNewError
    \/ DoUnsafeFrom \/ DoFrom

SpecAdapters == Init /\ [][NextAdapters]_vars

\* The asynchronous adapters: the caller starts one, and while the wrapped
\* computation runs it goes on allocating.
NextAsync ==
    \/ Continue
    \/ DoNewError
    \/ DoUnsafeFromAsync \/ DoFromAsync
    \/ Settle
    \/ Resume

SpecAsync == Init /\ [][NextAsync]_vars

\* A continuation whose promise has settled is run: the job queue of the host
\* runs every job it holds.
FairSpecAsync == SpecAsync /\ WF_vars(Resume)

\* The combinators of two Options or two Results.
NextCombine ==
    \/ Continue
    \/ DoSome \/ DoNone \/ DoOk \/ DoErr
    \/ DoOptionAnd \/ DoOptionOr \/ DoOptionOrElse \/ DoOptionXor
    \/ DoResultAnd \/ DoResultOr \/ DoResultOrElse

SpecCombine == Init /\ [][NextCombine]_vars

\* Taking the payload out of an Option: unwrapping, fallbacks, and the way
\* over to a Result.
NextFallback ==
    \/ Continue
    \/ DoSome \/ DoNone \/ DoNewError
    \/ DoOptionExpect \/ DoOptionUnwrap
    \/ DoOptionUnwrapOr \/ DoOptionUnwrapOrElse \/ DoOptionUnwrapOrUndefined
    \/ DoOptionOkOr \/ DoOptionOkOrElse

SpecFallback == Init /\ [][NextFallback]_vars

\* Collapsing an Option or a Result to a plain value.
NextMapOr ==
    \/ Continue
    \/ DoSome \/ DoNone \/ DoOk \/ DoErr
    \/ DoOptionMapOr \/ DoOptionMapOrElse
    \/ DoResultMapOr \/ DoResultMapOrElse

SpecMapOr == Init /\ [][NextMapOr]_vars

\* Either on its own.
NextEither ==
    \/ Continue
    \/ DoLeft \/ DoRight \/ DoIsLeft \/ DoIsRight
    \/ DoEitherFlip
    \/ DoEitherMap \/ DoEitherMapEither \/ DoEitherMapLeft \/ DoEitherMapRight
    \/ DoEitherEitherWith \/ DoEitherMapEitherWith
    \/ DoEitherMapLeftWith \/ DoEitherMapRightWith

SpecEither == Init /\ [][NextEither]_vars

\* The projections of a Result and of an Either to an Option.
NextProject ==
    \/ Continue
    \/ DoOk \/ DoErr \/ DoLeft \/ DoRight
    \/ DoResultOk \/ DoResultErr \/ DoEitherLeft \/ DoEitherRight

SpecProject == Init /\ [][NextProject]_vars

\* Taking the payload out of an Either.
NextEitherUnwrap ==
    \/ Continue
    \/ DoLeft \/ DoRight
    \/ DoEitherExpectLeft \/ DoEitherExpectRight
    \/ DoEitherUnwrapLeft \/ DoEitherUnwrapRight
    \/ DoEitherLeftOr \/ DoEitherRightOr
    \/ DoEitherLeftOrElse \/ DoEitherRightOrElse

SpecEitherUnwrap == Init /\ [][NextEitherUnwrap]_vars

\* Options made from nullable values.
NextNullable ==
    \/ Continue
    \/ DoSome \/ DoNone \/ DoNewError
    \/ DoOfNullable
    \/ DoIsSome \/ DoIsNone

SpecNullable == Init /\ [][NextNullable]_vars

\* Predicates over the payload.
NextPredicate ==
    \/ Continue
    \/ DoSome \/ DoNone \/ DoOk \/ DoErr \/ DoLeft \/ DoRight
    \/ DoOptionIsSomeAnd \/ DoOptionFilter \/ DoResultIsOkAnd
    \/ DoEitherIsLeftAnd \/ DoEitherIsRightAnd

SpecPredicate == Init /\ [][NextPredicate]_vars

\* Chaining.
NextAndThen ==
    \/ Continue
    \/ DoSome \/ DoNone \/ DoOk \/ DoErr
    \/ DoOptionAndThen \/ DoOptionFlatMap
    \/ DoResultAndThen \/ DoResultFlatMap

SpecAndThen == Init /\ [][NextAndThen]_vars

\* The four adapters together; the caller makes its synchronous calls while
\* no asynchronous one is in flight.
NextWrap ==
    \/ Continue
    \/ DoNewError
    \/ task.phase = "idle" /\ DoUnsafeFrom
    \/ task.phase = "idle" /\ DoFrom
    \/ DoUnsafeFromAsync \/ DoFromAsync
    \/ Settle
    \/ Resume

SpecWrap == Init /\ [][NextWrap]_vars

\* The operations that take a callback, and an adapter beside them.  A call
\* is made when the caller has taken the outcome of the one before (Ready,
\* which every call requires, is stated first).
NextCallbacks ==
    \/ Continue
    \/ Ready /\ DoSome
    \/ Ready /\ DoNone
    \/ Ready /\ DoOk
    \/ Ready /\ DoErr
    \/ Ready /\ DoLeft
    \/ Ready /\ DoRight
    \/ Ready /\ DoOptionMap
    \/ Ready /\ DoResultMap
    \/ Ready /\ DoResultMapErr
    \/ Ready /\ DoOptionMapOr
    \/ Ready /\ DoOptionMapOrElse
    \/ Ready /\ DoResultMapOr
    \/ Ready /\ DoResultMapOrElse
    \/ Ready /\ DoOptionAndThen
    \/ Ready /\ DoResultAndThen
    \/ Ready /\ DoOptionOrElse
    \/ Ready /\ DoResultOrElse
    \/ Ready /\ DoOptionFilter
    \/ Ready /\ DoOptionIsSomeAnd
    \/ Ready /\ DoOptionOkOrElse
    \/ Ready /\ DoOptionUnwrapOrElse
    \/ Ready /\ DoEitherMap
    \/ Ready /\ DoEitherMapLeft
    \/ Ready /\ DoEitherMapRight
    \/ Ready /\ DoEitherMapEither
    \/ Ready /\ DoEitherEither
    \/ Ready /\ DoUnsafeFrom

SpecCallbacks == Init /\ [][NextCallbacks]_vars

(***************************************************************************)
(* Properties.                                                             *)
(***************************************************************************)
\* the payload an instance holds, in either generation
PayloadOf(h, this) ==
    IF h[this.n].cls \in {"OptionT", "ResultT"} THEN h[this.n]._value.inner
    ELSE h[this.n].value

\* the heap as it was when the last call was made
Pre == SubSeq(heap, 1, last.before)

IsOption(h, v) == IsRef(v) /\ h[v.n].cls \in {"Some", "None", "OptionT"}

IsResult(h, v) == IsRef(v) /\ h[v.n].cls \in {"Ok", "Err", "ResultT"}

UnwrapOptionOf(h, o) ==
    IF impl = "subclass" THEN unwrapOption(h, o) ELSE OptionT_unwrap(h, o)

UnwrapResultOf(h, r) ==
    IF impl = "subclass" THEN unwrapResult(h, r) ELSE ResultT_unwrap(h, r)

\* C1: unwrap() of an Err raises the very value the Err holds and builds no
\* new error, unwrap() of an Ok returns its payload without raising, in both
\* generations of Result; and the Err that None().okOr(e) makes raises e itself.
C1_UnwrapRaisesTheErrorItself ==
    /\ last.op = "Result.unwrap" =>
           /\ last.out.val = PayloadOf(heap, last.this)
           /\ last.out.kind = IF isOk(heap, last.this) THEN "return" ELSE "throw"
           /\ Len(heap) = last.before
    /\ (last.op = "Option.okOr" /\ isNone(heap, last.this)) =>
           /\ last.out.kind = "return"
           /\ isErr(heap, last.out.val)
           /\ LET u == UnwrapResultOf(heap, last.out.val)
              IN /\ u.out = [kind |-> "throw", val |-> last.args[1]]
                 /\ u.heap = heap

\* an Err holding an Error object was unwrapped and threw that object
C1_Witness ==
    /\ last.op = "Result.unwrap"
    /\ impl = "subclass"
    /\ last.out.kind = "throw"
    /\ IsRef(last.out.val)
    /\ heap[last.out.val.n].cls = "Error"

\* what the function handed to the last adapter call raised
Raised ==
    CASE last.thunk.does = "throw" -> last.thunk.val
      [] last.thunk.does = "throwNew" -> Ref(last.before + 1)
      [] OTHER -> Undefined

\* the kinds an object of a class is an instance of: IoError extends Error,
\* FileNotFound extends IoError
IsA ==
    {<<"Error", "Error">>,
     <<"IoError", "IoError">>, <<"IoError", "Error">>,
     <<"FileNotFound", "FileNotFound">>, <<"FileNotFound", "IoError">>,
     <<"FileNotFound", "Error">>}

Listed(x, expectedErrors) ==
    /\ IsRef(x)
    /\ \E i \in DOMAIN expectedErrors : <<heap[x.n].cls, expectedErrors[i]>> \in IsA

\* C2: Result.from(expectedErrors, fn) is Ok(v) when fn returns v; is an Err
\* holding x itself when fn raises x and x is an instance of a listed kind or
\* of a subclass of one; and raises x itself, making no Result, when x is an
\* instance of no listed kind, the empty list included.
C2_FromFiltersByKind ==
    last.op = "from" =>
        IF last.thunk.does = "return"
        THEN /\ last.out = [kind |-> "return", val |-> Ref(Len(heap))]
             /\ Len(heap) = last.before + 1
             /\ isOk(heap, last.out.val) /\ ~isErr(heap, last.out.val)
             /\ PayloadOf(heap, last.out.val) = last.thunk.val
        ELSE /\ last.thunk.does = "throwNew" => heap[Raised.n].cls = last.thunk.cls
             /\ IF Listed(Raised, last.expectedErrors)
                THEN /\ last.out = [kind |-> "return", val |-> Ref(Len(heap))]
                     /\ last.out.val # Raised
                     /\ isErr(heap, last.out.val) /\ ~isOk(heap, last.out.val)
                     /\ PayloadOf(heap, last.out.val) = Raised
                ELSE /\ last.out = [kind |-> "throw", val |-> Raised]
                     /\ \A a \in (last.before + 1)..Len(heap) :
                            ~IsResult(heap, Ref(a))

\* from([IoError], fn) made an Err of the FileNotFound that fn raised
C2_Witness ==
    /\ last.op = "from"
    /\ last.expectedErrors = <<"IoError">>
    /\ last.thunk.does = "throwNew"
    /\ last.thunk.cls = "FileNotFound"
    /\ last.out.kind = "return"
    /\ isErr(heap, last.out.val)

\* C3: Result.unsafeFrom(fn) never raises: it is Ok(v) when fn returns v and
\* an Err holding x itself when fn raises x, an Error or any other value;
\* the single-class Result.from(fn) does the same.
C3_UnsafeFromNeverRaises ==
    last.op = "unsafeFrom" =>
        /\ last.out = [kind |-> "return", val |-> Ref(Len(heap))]
        /\ IsResult(heap, last.out.val)
        /\ IF last.thunk.does = "return"
           THEN /\ Len(heap) = last.before + 1
                /\ isOk(heap, last.out.val) /\ ~isErr(heap, last.out.val)
                /\ PayloadOf(heap, last.out.val) = last.thunk.val
           ELSE /\ isErr(heap, last.out.val) /\ ~isOk(heap, last.out.val)
                /\ PayloadOf(heap, last.out.val) = Raised

\* unsafeFrom made an Err of a raised value that is no object at all
C3_Witness ==
    /\ last.op = "unsafeFrom"
    /\ last.thunk.does = "throw"
    /\ ~IsRef(last.thunk.val)
    /\ last.out.kind = "return"
    /\ isErr(heap, last.out.val)
    /\ PayloadOf(heap, last.out.val) = last.thunk.val

\* the function that does at once what the awaited computation did
SyncThunk ==
    [does |-> IF task.awaited.kind = "return" THEN "return" ELSE "throw",
     val |-> task.awaited.val, cls |-> ""]

SyncCounterpart(h) ==
    CASE task.adapter = "fromAsync" -> Result_from(h, task.expectedErrors, SyncThunk)
      [] task.adapter = "unsafeFromAsync" /\ impl = "subclass" ->
             Result_unsafeFrom(h, SyncThunk)
      [] OTHER -> ResultT_from(h, SyncThunk)

\* C4: the promise of an async adapter settles as the synchronous adapter
\* returns or raises on a function doing what the computation did:
\* unsafeFromAsync fulfils with Ok(v) on fulfilment with v, with Err(x) on
\* rejection with x or on a raise of x before any promise, and never rejects;
\* fromAsync fulfils with Ok(v) or Err(x) by the test of from and rejects
\* with x itself when no listed kind matches.
C4_AsyncAsSync ==
    task.phase = "settled" =>
        LET made == IF last.out.kind = "return" THEN 1 ELSE 0
            s == SyncCounterpart(SubSeq(heap, 1, Len(heap) - made))
            x == task.awaited.val
        IN /\ last.op = task.adapter
           /\ s.out = last.out
           /\ s.heap = heap
           /\ task.adapter = "unsafeFromAsync" => last.out.kind = "return"
           /\ task.inner = "fulfilled" =>
                  /\ last.out.kind = "return"
                  /\ isOk(heap, last.out.val)
                  /\ PayloadOf(heap, last.out.val) = x
           /\ (task.inner # "fulfilled" /\ last.out.kind = "return") =>
                  /\ isErr(heap, last.out.val)
                  /\ PayloadOf(heap, last.out.val) = x
                  /\ task.adapter = "fromAsync" => Listed(x, task.expectedErrors)
           /\ last.out.kind = "throw" =>
                  /\ last.out.val = x
                  /\ ~Listed(x, task.expectedErrors)

\* the promise of fromAsync rejected with what the promise of fn rejected with
C4_Witness ==
    /\ task.phase = "settled"
    /\ task.adapter = "fromAsync"
    /\ task.inner = "rejected"
    /\ last.out.kind = "throw"
    /\ last.out.val = task.awaited.val

\* C5: the promise of an async adapter settles only once the wrapped
\* computation has settled, and no Result is there before; it settles in the
\* end whenever the computation has settled; and as long as the computation
\* is pending no step settles it.
C5_SettlesAfterAndOnlyAfter ==
    /\ [](task.phase = "settled" => task.inner \in {"fulfilled", "rejected", "threw"})
    /\ [](task.phase = "awaiting" => last.op # task.adapter)
    /\ [][(task.phase = "awaiting" /\ task.inner = "pending")
              => task'.phase = "awaiting"]_vars
    /\ (task.phase = "awaiting" /\ task.inner \in {"fulfilled", "rejected"})
           ~> (task.phase = "settled")

\* unsafeFromAsync settled with an Ok after the promise of fn fulfilled
C5_Witness ==
    /\ task.phase = "settled"
    /\ task.adapter = "unsafeFromAsync"
    /\ task.inner = "fulfilled"
    /\ isOk(heap, last.out.val)

\* C6: Option.flatten removes exactly one level: Some(o).flatten() is o for
\* every Option o, and a None or a Some of a non-Option is returned as it
\* is, in both generations of Option.
C6_OptionFlattenOneLevel ==
    last.op = "Option.flatten" =>
        LET p == PayloadOf(heap, last.this)
        IN last.out = [kind |-> "return",
                       val |-> IF isSome(heap, last.this) /\ IsOption(heap, p)
                               THEN p ELSE last.this]

\* C7: Result.flatten removes exactly one level: Ok(r).flatten() is r for
\* every Result r, and an Err or an Ok of a non-Result is returned as it is,
\* in both generations of Result.
C7_ResultFlattenOneLevel ==
    last.op = "Result.flatten" =>
        LET p == PayloadOf(heap, last.this)
        IN last.out = [kind |-> "return",
                       val |-> IF isOk(heap, last.this) /\ IsResult(heap, p)
                               THEN p ELSE last.this]

ExactlyOneVariant(h, a) ==
    /\ IsOption(h, Ref(a)) => isSome(h, Ref(a)) # isNone(h, Ref(a))
    /\ IsResult(h, Ref(a)) => isOk(h, Ref(a)) # isErr(h, Ref(a))
    /\ h[a].cls \in {"Left", "Right"} => isLeft(h, Ref(a)) # isRight(h, Ref(a))

VariantOf(h, a) ==
    <<isSome(h, Ref(a)), isNone(h, Ref(a)), isOk(h, Ref(a)), isErr(h, Ref(a)),
      isLeft(h, Ref(a)), isRight(h, Ref(a))>>

\* C8: of every instance exactly one variant predicate is true, and every
\* call leaves the answers of every instance there is as they were.
C8_OneVariantForEver ==
    /\ [](\A a \in DOMAIN heap : ExactlyOneVariant(heap, a))
    /\ [][\A a \in DOMAIN heap :
              a \in DOMAIN heap' /\ VariantOf(heap', a) = VariantOf(heap, a)]_vars

\* isSome() answered true on an Option while the heap holds an Either too
C8_Witness ==
    /\ last.op = "isSome"
    /\ last.out.val = Bool(TRUE)
    /\ \E a \in DOMAIN heap : heap[a].cls \in {"Left", "Right"}

MapOps ==
    {"Option.map", "Result.map", "Result.mapErr", "Either.map", "Either.mapEither",
     "Either.mapLeft", "Either.mapRight"}

\* C9: what a transformation returns is a new instance, never the receiver,
\* also when the transformation does not apply to the receiver's variant.
C9_MapReturnsNewInstance ==
    (last.op \in MapOps /\ last.out.kind = "return") =>
        /\ last.out.val # last.this
        /\ last.out.val.n > last.before

\* C10: Some(v).map(f) is a Some whose unwrap() is f(v), f being called once,
\* on v; None().map(f) is a None and f is not called.
C10_OptionMap ==
    last.op = "Option.map" =>
        LET v == PayloadOf(Pre, last.this)
            fv == ApplyFn(last.fn, Pre, <<v>>)
        IN IF isSome(Pre, last.this)
           THEN /\ last.calls = <<[fn |-> last.fn, args |-> <<v>>]>>
                /\ Returned(fv) =>
                       /\ last.out.kind = "return"
                       /\ isSome(heap, last.out.val)
                       /\ fv.heap = SubSeq(heap, 1, Len(fv.heap))
                       /\ UnwrapOptionOf(heap, last.out.val)
                              = Ret(heap, fv.out.val, <<>>)
           ELSE /\ last.calls = <<>>
                /\ last.out.kind = "return"
                /\ ~isSome(heap, last.out.val)
                /\ isNone(heap, last.out.val)

\* Some(v).map((v) => !v) gave a Some holding !v
C10_Witness ==
    /\ last.op = "Option.map"
    /\ last.fn = "not"
    /\ last.out.kind = "return"
    /\ isSome(heap, last.out.val)
    /\ PayloadOf(heap, last.out.val) = Not(PayloadOf(heap, last.this))

C12_Or ==
    /\ last.op \in {"Option.or", "Result.or"} =>
           /\ last.out = [kind |-> "return",
                          val |-> IF isSome(heap, last.this) \/ isOk(heap, last.this)
                                  THEN last.this ELSE last.args[1]]
           /\ Len(heap) = last.before
           /\ last.calls = <<>>
    /\ last.op \in {"Option.orElse", "Result.orElse"} =>
           IF isSome(heap, last.this) \/ isOk(heap, last.this)
           THEN /\ last.out = [kind |-> "return", val |-> last.this]
                /\ last.calls = <<>>
                /\ Len(heap) = last.before
           ELSE /\ last.calls = <<[fn |-> "fn", args |-> <<>>]>>
                /\ last.thunk.does = "return" =>
                       /\ last.out = [kind |-> "return", val |-> last.thunk.val]
                       /\ Len(heap) = last.before

\* None().orElse(fn) gave the Some that fn returned
C12_Witness ==
    /\ last.op = "Option.orElse"
    /\ isNone(heap, last.this)
    /\ last.thunk.does = "return"
    /\ isSome(heap, last.thunk.val)
    /\ last.out.val = last.thunk.val
    /\ last.calls = <<[fn |-> "fn", args |-> <<>>]>>

\* C13: a.xor(b) is a itself when only a is Some, b itself when only b is
\* Some, and a None when both are Some and when both are None.
C13_Xor ==
    last.op = "Option.xor" =>
        LET a == last.this
            b == last.args[1]
        IN /\ last.out.kind = "return"
           /\ isSome(heap, last.out.val) <=> (isSome(heap, a) # isSome(heap, b))
           /\ isNone(heap, last.out.val) <=> (isSome(heap, a) = isSome(heap, b))
           /\ (isSome(heap, a) /\ ~isSome(heap, b)) => last.out.val = a
           /\ (isSome(heap, b) /\ ~isSome(heap, a)) => last.out.val = b

\* None().xor(Some(v2)) gave the Some
C13_Witness ==
    /\ last.op = "Option.xor"
    /\ isNone(heap, last.this)
    /\ isSome(heap, last.args[1])
    /\ last.out.val = last.args[1]

\* the receiver of the last call is a Some (of the generation at hand)
OnSome == isSome(heap, last.this)

\* C14: Some(v).okOr(e) is an Ok whose unwrap() returns v, None().okOr(e) is
\* an Err whose unwrap() raises e itself; okOrElse(errorFactory) does the
\* same with what errorFactory() returns for e, errorFactory being called
\* once when the receiver is None and not at all when it is Some.
C14_OkOr ==
    /\ last.op \in {"Option.okOr", "Option.okOrElse"} /\ OnSome =>
           /\ last.calls = <<>>
           /\ last.out = [kind |-> "return", val |-> Ref(Len(heap))]
           /\ Len(heap) = last.before + 1
           /\ isOk(heap, last.out.val) /\ ~isErr(heap, last.out.val)
           /\ UnwrapResultOf(heap, last.out.val)
                  = Ret(heap, PayloadOf(heap, last.this), <<>>)
    /\ last.op = "Option.okOr" /\ ~OnSome =>
           /\ last.out = [kind |-> "return", val |-> Ref(Len(heap))]
           /\ isErr(heap, last.out.val) /\ ~isOk(heap, last.out.val)
           /\ UnwrapResultOf(heap, last.out.val) = Thr(heap, last.args[1], <<>>)
    /\ last.op = "Option.okOrElse" /\ ~OnSome =>
           /\ last.calls = <<[fn |-> "fn", args |-> <<>>]>>
           /\ last.thunk.does = "return" =>
                  /\ last.out = [kind |-> "return", val |-> Ref(Len(heap))]
                  /\ isErr(heap, last.out.val) /\ ~isOk(heap, last.out.val)
                  /\ UnwrapResultOf(heap, last.out.val)
                         = Thr(heap, last.thunk.val, <<>>)

\* None().okOrElse(errorFactory) called errorFactory once and gave an Err of
\* what it returned
C14_Witness ==
    /\ last.op = "Option.okOrElse"
    /\ isNone(heap, last.this)
    /\ last.thunk.does = "return"
    /\ last.calls = <<[fn |-> "fn", args |-> <<>>]>>
    /\ isErr(heap, last.out.val)
    /\ PayloadOf(heap, last.out.val) = last.thunk.val

\* the default message of Option.unwrap, of either generation
UnwrapMessage ==
    IF impl = "subclass" THEN "Tried to unwrap a None value"
    ELSE "called Option.unwrap() on a None value"

\* the last call threw an Error, made in the call, with the message m
ThrewNewError(m) ==
    /\ last.out = [kind |-> "throw", val |-> Ref(Len(heap))]
    /\ Len(heap) = last.before + 1
    /\ heap[Len(heap)].cls = "Error"
    /\ heap[Len(heap)].message = m

\* C16: on a None, expect(m) raises a new Error with the message m and
\* unwrap() one with the default message; on Some(v) both return v.
\* unwrapOr(d), unwrapOrElse(fn) and unwrapOrUndefined() return v on Some(v),
\* fn not being called, and d, what fn() returns, undefined on None; they
\* raise nothing of their own.
C16_UnwrapFailsLoudly ==
    /\ last.op \in {"Option.expect", "Option.unwrap", "Option.unwrapOr",
                    "Option.unwrapOrElse", "Option.unwrapOrUndefined"} /\ OnSome =>
           /\ last.out = [kind |-> "return", val |-> PayloadOf(heap, last.this)]
           /\ last.calls = <<>>
           /\ Len(heap) = last.before
    /\ (last.op = "Option.expect" /\ ~OnSome) => ThrewNewError(last.args[1])
    /\ (last.op = "Option.unwrap" /\ ~OnSome) => ThrewNewError(UnwrapMessage)
    /\ (last.op = "Option.unwrapOr" /\ ~OnSome) =>
           /\ last.out = [kind |-> "return", val |-> last.args[1]]
           /\ Len(heap) = last.before
    /\ (last.op = "Option.unwrapOrUndefined" /\ ~OnSome) =>
           /\ last.out = [kind |-> "return", val |-> Undefined]
           /\ Len(heap) = last.before
    /\ (last.op = "Option.unwrapOrElse" /\ ~OnSome) =>
           /\ last.calls = <<[fn |-> "fn", args |-> <<>>]>>
           /\ last.thunk.does = "return" =>
                  /\ last.out = [kind |-> "return", val |-> last.thunk.val]
                  /\ Len(heap) = last.before
           /\ last.thunk.does = "throw" =>
                  last.out = [kind |-> "throw", val |-> last.thunk.val]
           /\ last.out.kind = "throw" => last.thunk.does \in {"throw", "throwNew"}

\* None().expect("no value") threw an Error with that message
C16_Witness ==
    /\ last.op = "Option.expect"
    /\ isNone(heap, last.this)
    /\ last.args = <<"no value">>
    /\ last.out.kind = "throw"
    /\ heap[last.out.val.n].message = "no value"

\* the last call came out as the callback fn does on the value v: it
\* returned what fn returns (for a callback that makes an object, an object
\* made in the call and equal to it) or it threw what fn throws
CameOutAs(fn, v) ==
    LET fv == ApplyFn(fn, Pre, <<v>>)
    IN /\ last.out.kind = fv.out.kind
       /\ IF IsRef(fv.out.val) /\ fv.out.val.n > last.before
          THEN /\ IsRef(last.out.val)
               /\ last.out.val.n > last.before
               /\ heap[last.out.val.n] = fv.heap[fv.out.val.n]
          ELSE last.out.val = fv.out.val

\* C15: mapOrElse(defaultFn, fn) runs one of its two callbacks, once: fn on
\* the payload of a Some or an Ok, the call giving what fn gives; defaultFn
\* on a None (no argument) or on the payload of an Err.  mapOr(default, fn)
\* runs fn once on the payload of a Some or an Ok and returns default, with
\* no call of fn, on a None or an Err.
C15_OneCallbackOnce ==
    LET ops == {"Option.mapOr", "Option.mapOrElse", "Result.mapOr", "Result.mapOrElse"}
        applies == isSome(heap, last.this) \/ isOk(heap, last.this)
        v == PayloadOf(heap, last.this)
    IN /\ (last.op \in ops /\ applies) =>
              /\ last.calls = <<[fn |-> last.fn, args |-> <<v>>]>>
              /\ CameOutAs(last.fn, v)
       /\ (last.op \in {"Option.mapOr", "Result.mapOr"} /\ ~applies) =>
              /\ last.calls = <<>>
              /\ last.out = [kind |-> "return", val |-> last.args[1]]
              /\ Len(heap) = last.before
       /\ (last.op = "Option.mapOrElse" /\ ~applies) =>
              /\ last.calls = <<[fn |-> "fn", args |-> <<>>]>>
              /\ last.thunk.does = "return" =>
                     last.out = [kind |-> "return", val |-> last.thunk.val]
       /\ (last.op = "Result.mapOrElse" /\ ~applies) =>
              /\ isErr(heap, last.this) /\ ~isOk(heap, last.this)
              /\ last.calls = <<[fn |-> last.fn2, args |-> <<v>>]>>
              /\ CameOutAs(last.fn2, v)

\* Err(e).mapOrElse(onErr, onOk), with two different callbacks, called onErr
\* on e and nothing else
C15_Witness ==
    /\ last.op = "Result.mapOrElse"
    /\ isErr(heap, last.this)
    /\ last.fn2 = "not"
    /\ last.fn = "box"
    /\ last.calls = <<[fn |-> "not", args |-> <<PayloadOf(heap, last.this)>>]>>
    /\ last.out = [kind |-> "return", val |-> Not(PayloadOf(heap, last.this))]

\* the value p is what the callback fn returns on v: the same value, or,
\* for a callback that makes an object, an object made in the last call and
\* equal to the one fn makes
IsFnOf(p, fn, v) ==
    LET fv == ApplyFn(fn, Pre, <<v>>)
    IN IF IsRef(fv.out.val) /\ fv.out.val.n > last.before
       THEN IsRef(p) /\ p.n > last.before /\ heap[p.n] = fv.heap[fv.out.val.n]
       ELSE p = fv.out.val

\* C17: Ok(v).map(f) is an Ok holding f(v), f called once on v, and
\* Err(e).map(f) is an Err holding e, f not called; Err(e).mapErr(g) is an
\* Err whose unwrap() raises g(e), g called once on e, and Ok(v).mapErr(g)
\* is an Ok holding v, g not called.
C17_MapOneSide ==
    LET v == PayloadOf(heap, last.this)
        fv == ApplyFn(last.fn, Pre, <<v>>)
        res == last.out.val
    IN /\ (last.op = "Result.map" /\ isOk(heap, last.this)) =>
              /\ last.calls = <<[fn |-> last.fn, args |-> <<v>>]>>
              /\ Returned(fv) =>
                     /\ last.out.kind = "return"
                     /\ isOk(heap, res) /\ ~isErr(heap, res)
                     /\ IsFnOf(PayloadOf(heap, res), last.fn, v)
       /\ (last.op = "Result.map" /\ ~isOk(heap, last.this)) =>
              /\ last.calls = <<>>
              /\ last.out.kind = "return"
              /\ isErr(heap, res) /\ ~isOk(heap, res)
              /\ PayloadOf(heap, res) = v
       /\ (last.op = "Result.mapErr" /\ isErr(heap, last.this)) =>
              /\ last.calls = <<[fn |-> last.fn, args |-> <<v>>]>>
              /\ Returned(fv) =>
                     /\ last.out.kind = "return"
                     /\ isErr(heap, res) /\ ~isOk(heap, res)
                     /\ LET u == UnwrapResultOf(heap, res)
                        IN /\ Threw(u)
                           /\ u.heap = heap
                           /\ IsFnOf(u.out.val, last.fn, v)
       /\ (last.op = "Result.mapErr" /\ ~isErr(heap, last.this)) =>
              /\ last.calls = <<>>
              /\ last.out.kind = "return"
              /\ isOk(heap, res) /\ ~isErr(heap, res)
              /\ PayloadOf(heap, res) = v

\* Err(e).mapErr((e) => !e) of the subclass generation gave another Err,
\* which holds !e
C17_Witness ==
    /\ last.op = "Result.mapErr"
    /\ impl = "subclass"
    /\ isErr(heap, last.this)
    /\ last.fn = "not"
    /\ last.out.kind = "return"
    /\ last.out.val # last.this
    /\ isErr(heap, last.out.val)
    /\ PayloadOf(heap, last.out.val) = Not(PayloadOf(heap, last.this))

\* the Either b of the heap h is on the side of the last receiver
SameSide(h, b) ==
    /\ isLeft(h, b) = isLeft(heap, last.this)
    /\ isRight(h, b) = isRight(heap, last.this)

\* C18: e.flip() is an Either on the other side of e with the payload of e,
\* and e.flip().flip() is on the side of e with the payload of e, an
\* instance equal to e field by field.
C18_Flip ==
    last.op = "Either.flip" =>
        LET e == last.this
            f == last.out.val
            ff == Either_flip(heap, f)
        IN /\ last.out.kind = "return"
           /\ last.calls = <<>>
           /\ f # e
           /\ isLeft(heap, f) = isRight(heap, e)
           /\ isRight(heap, f) = isLeft(heap, e)
           /\ PayloadOf(heap, f) = PayloadOf(heap, e)
           /\ Returned(ff)
           /\ SameSide(ff.heap, ff.out.val)
           /\ PayloadOf(ff.heap, ff.out.val) = PayloadOf(heap, e)
           /\ ff.heap[ff.out.val.n] = heap[e.n]

\* Left(x).flip() gave a Right holding x
C18_Witness ==
    /\ last.op = "Either.flip"
    /\ isLeft(heap, last.this)
    /\ isRight(heap, last.out.val)
    /\ ~isLeft(heap, last.out.val)
    /\ PayloadOf(heap, last.out.val) = PayloadOf(heap, last.this)

\* the callback of the side the last receiver is on
ActiveFn == IF isLeft(heap, last.this) THEN last.fn ELSE last.fn2

\* the last call gave an Either on the side of the receiver that holds what
\* the callback fn returns on the payload of the receiver
KeptSideWith(fn) ==
    /\ last.out.kind = "return"
    /\ last.out.val # last.this
    /\ SameSide(heap, last.out.val)
    /\ IsFnOf(PayloadOf(heap, last.out.val), fn, PayloadOf(heap, last.this))

\* C19: e.map(f) calls f once, on the payload of e whichever its side, and
\* is an Either on the side of e holding what f returned;
\* e.mapEither(onLeft, onRight) calls the callback of the side of e once,
\* on the payload, the other one not at all, and is an Either on the side
\* of e holding what that callback returned.
C19_EitherMap ==
    LET v == PayloadOf(heap, last.this)
    IN /\ last.op = "Either.map" =>
              /\ last.calls = <<[fn |-> last.fn, args |-> <<v>>]>>
              /\ Returned(ApplyFn(last.fn, Pre, <<v>>)) => KeptSideWith(last.fn)
       /\ last.op = "Either.mapEither" =>
              /\ last.calls = <<[fn |-> ActiveFn, args |-> <<v>>]>>
              /\ Returned(ApplyFn(ActiveFn, Pre, <<v>>)) => KeptSideWith(ActiveFn)

\* Right(y).mapEither(onLeft, onRight), onLeft a callback that throws, gave
\* a Right holding what onRight returns on y
C19_Witness ==
    /\ last.op = "Either.mapEither"
    /\ isRight(heap, last.this)
    /\ last.fn = "raise"
    /\ last.fn2 = "not"
    /\ last.out.kind = "return"
    /\ isRight(heap, last.out.val)
    /\ PayloadOf(heap, last.out.val) = Not(PayloadOf(heap, last.this))

\* the last call gave an Either on the side of the receiver that holds the
\* very payload of the receiver, and called nothing
PassedThrough ==
    /\ last.calls = <<>>
    /\ last.out.kind = "return"
    /\ SameSide(heap, last.out.val)
    /\ PayloadOf(heap, last.out.val) = PayloadOf(heap, last.this)

\* C20: mapLeft(f) on a Left calls f once on the payload and gives a Left of
\* what f returned, on a Right it gives a Right of the same payload and
\* does not call f; mapRight(f) likewise with the sides exchanged.
\* mapLeftWith(ctx, f), mapRightWith(ctx, f) do the same and
\* mapEitherWith(ctx, onLeft, onRight), eitherWith(ctx, onLeft, onRight)
\* call the callback of the side of the receiver, all of them with the
\* payload first and ctx itself second.
C20_EitherMapOneSide ==
    LET v == PayloadOf(heap, last.this)
        with == IF last.op \in {"Either.mapLeft", "Either.mapRight"}
                THEN <<v>> ELSE <<v, last.args[1]>>
        onLeft == last.op \in {"Either.mapLeft", "Either.mapLeftWith"}
        onRight == last.op \in {"Either.mapRight", "Either.mapRightWith"}
    IN /\ (onLeft \/ onRight) =>
              IF onLeft = isLeft(heap, last.this)
              THEN /\ last.calls = <<[fn |-> last.fn, args |-> with]>>
                   /\ Returned(ApplyFn(last.fn, Pre, with)) => KeptSideWith(last.fn)
              ELSE PassedThrough
       /\ last.op = "Either.mapEitherWith" =>
              /\ last.calls = <<[fn |-> ActiveFn, args |-> with]>>
              /\ Returned(ApplyFn(ActiveFn, Pre, with)) => KeptSideWith(ActiveFn)
       /\ last.op = "Either.eitherWith" =>
              /\ last.calls = <<[fn |-> ActiveFn, args |-> with]>>
              /\ CameOutAs(ActiveFn, v)

\* Left(x).mapLeftWith(ctx, f), ctx another value than x, called f on x and
\* ctx and gave a Left of what f returned
C20_Witness ==
    /\ last.op = "Either.mapLeftWith"
    /\ isLeft(heap, last.this)
    /\ last.args[1] # PayloadOf(heap, last.this)
    /\ last.fn = "not"
    /\ last.calls = <<[fn |-> "not",
                       args |-> <<PayloadOf(heap, last.this), last.args[1]>>]>>
    /\ isLeft(heap, last.out.val)
    /\ PayloadOf(heap, last.out.val) = Not(PayloadOf(heap, last.this))

\* the last call gave a new Some holding the payload of the receiver
GaveSomeOfPayload ==
    /\ last.out = [kind |-> "return", val |-> Ref(Len(heap))]
    /\ Len(heap) = last.before + 1
    /\ isSome(heap, last.out.val) /\ ~isNone(heap, last.out.val)
    /\ unwrapOption(heap, last.out.val) = Ret(heap, PayloadOf(heap, last.this), <<>>)

\* the last call gave a new None
GaveNone ==
    /\ last.out = [kind |-> "return", val |-> Ref(Len(heap))]
    /\ Len(heap) = last.before + 1
    /\ isNone(heap, last.out.val) /\ ~isSome(heap, last.out.val)

\* C21: r.ok() is a Some of the payload of r when r is Ok and a None when r
\* is Err, r.err() the other way round, so that of the two exactly one is a
\* Some; x.left() is a Some of the payload of x when x is a Left and a None
\* when x is a Right, x.right() the other way round.
C21_Projections ==
    /\ last.op = "Result.ok" =>
           IF isOk(heap, last.this) THEN GaveSomeOfPayload ELSE GaveNone
    /\ last.op = "Result.err" =>
           IF isErr(heap, last.this) THEN GaveSomeOfPayload ELSE GaveNone
    /\ last.op = "Either.left" =>
           IF isLeft(heap, last.this) THEN GaveSomeOfPayload ELSE GaveNone
    /\ last.op = "Either.right" =>
           IF isRight(heap, last.this) THEN GaveSomeOfPayload ELSE GaveNone
    /\ last.op \in {"Result.ok", "Result.err"} =>
           LET o == okResult(heap, last.this)
               e == errResult(heap, last.this)
           IN isSome(o.heap, o.out.val) # isSome(e.heap, e.out.val)
    /\ last.op \in {"Either.left", "Either.right"} =>
           LET l == Either_left(heap, last.this)
               r == Either_right(heap, last.this)
           IN isSome(l.heap, l.out.val) # isSome(r.heap, r.out.val)

\* Right(y).left() gave a None
C21_Witness ==
    /\ last.op = "Either.left"
    /\ isRight(heap, last.this)
    /\ last.out.kind = "return"
    /\ isNone(heap, last.out.val)

\* the last call asks for the left payload, for the right payload
AsksLeft ==
    last.op \in {"Either.expectLeft", "Either.unwrapLeft", "Either.leftOr",
                 "Either.leftOrElse"}

AsksRight ==
    last.op \in {"Either.expectRight", "Either.unwrapRight", "Either.rightOr",
                 "Either.rightOrElse"}

\* C22: on an Either of the side asked for, expectLeft/expectRight,
\* unwrapLeft/unwrapRight, leftOr/rightOr and leftOrElse/rightOrElse return
\* the payload and call nothing.  On the other side expectLeft(m) and
\* expectRight(m) raise a new Error with the message m, unwrapLeft and
\* unwrapRight one with their fixed message, leftOr(d) and rightOr(d)
\* return d, leftOrElse(fn) and rightOrElse(fn) call fn once and return what
\* it returns, raising nothing of their own.
C22_EitherUnwrap ==
    LET matches == (AsksLeft /\ isLeft(heap, last.this))
                   \/ (AsksRight /\ isRight(heap, last.this))
    IN /\ ((AsksLeft \/ AsksRight) /\ matches) =>
              /\ last.out = [kind |-> "return", val |-> PayloadOf(heap, last.this)]
              /\ last.calls = <<>>
              /\ Len(heap) = last.before
       /\ (last.op \in {"Either.expectLeft", "Either.expectRight"} /\ ~matches) =>
              ThrewNewError(last.args[1])
       /\ (last.op = "Either.unwrapLeft" /\ ~matches) =>
              ThrewNewError("Tried to left-unwrap a right value")
       /\ (last.op = "Either.unwrapRight" /\ ~matches) =>
              ThrewNewError("Tried to right-unwrap a left value")
       /\ (last.op \in {"Either.leftOr", "Either.rightOr"} /\ ~matches) =>
              /\ last.out = [kind |-> "return", val |-> last.args[1]]
              /\ last.calls = <<>>
              /\ Len(heap) = last.before
       /\ (last.op \in {"Either.leftOrElse", "Either.rightOrElse"} /\ ~matches) =>
              /\ last.calls = <<[fn |-> "fn", args |-> <<>>]>>
              /\ last.thunk.does = "return" =>
                     /\ last.out = [kind |-> "return", val |-> last.thunk.val]
                     /\ Len(heap) = last.before
              /\ last.out.kind = "throw" => last.thunk.does \in {"throw", "throwNew"}

\* Right(y).expectLeft("no value") threw an Error with that message
C22_Witness ==
    /\ last.op = "Either.expectLeft"
    /\ isRight(heap, last.this)
    /\ last.args = <<"no value">>
    /\ last.out.kind = "throw"
    /\ heap[last.out.val.n].cls = "Error"
    /\ heap[last.out.val.n].message = "no value"

\* C23: Option.ofNullable(value) returns a new None exactly when value is
\* null or undefined, and for every other value, the falsy 0, "", false and
\* NaN included, a new Some holding that value.
C23_OfNullable ==
    last.op = "Option.ofNullable" =>
        /\ last.out = [kind |-> "return", val |-> Ref(last.before + 1)]
        /\ Len(heap) = last.before + 1
        /\ last.calls = <<>>
        /\ isNone(heap, last.out.val) <=> last.args[1] \in {Undefined, Null}
        /\ isSome(heap, last.out.val) <=> last.args[1] \notin {Undefined, Null}
        /\ isSome(heap, last.out.val) => PayloadOf(heap, last.out.val) = last.args[1]

\* Option.ofNullable(NaN) gave a Some holding NaN
C23_Witness ==
    /\ last.op = "Option.ofNullable"
    /\ last.args = <<NaN>>
    /\ last.out.kind = "return"
    /\ isSome(heap, last.out.val)
    /\ PayloadOf(heap, last.out.val) = NaN

\* the receiver of the last call is of the variant its predicate call is about
OnVariantAsked ==
    \/ last.op \in {"Option.isSomeAnd", "Option.filter"} /\ isSome(heap, last.this)
    \/ last.op = "Result.isOkAnd" /\ isOk(heap, last.this)
    \/ last.op = "Either.isLeftAnd" /\ isLeft(heap, last.this)
    \/ last.op = "Either.isRightAnd" /\ isRight(heap, last.this)

C25_AndThen ==
    LET p == PayloadOf(heap, last.this)
        fnOfV == ApplyBinder(last.fn, Pre, <<p>>)
    IN /\ (last.op \in {"Option.andThen", "Option.flatMap"} /\ isSome(heap, last.this))
          \/ (last.op \in {"Result.andThen", "Result.flatMap"} /\ isOk(heap, last.this)) =>
              /\ last.calls = <<[fn |-> last.fn, args |-> <<p>>]>>
              /\ last.out = fnOfV.out
              /\ heap = fnOfV.heap
       /\ (last.op \in {"Option.andThen", "Option.flatMap"} /\ isNone(heap, last.this)) =>
              /\ last.calls = <<>>
              /\ last.out.kind = "return"
              /\ isNone(heap, last.out.val)
       /\ (last.op \in {"Result.andThen", "Result.flatMap"} /\ isErr(heap, last.this)) =>
              /\ last.calls = <<>>
              /\ last.out.kind = "return"
              /\ isErr(heap, last.out.val)
              /\ PayloadOf(heap, last.out.val) = p

\* Some(v).flatMap((v) => Option.None()) gave the None that fn made
C25_Witness ==
    /\ last.op = "Option.flatMap"
    /\ isSome(heap, last.this)
    /\ last.fn = "none"
    /\ last.out = [kind |-> "return", val |-> Ref(last.before + 1)]
    /\ isNone(heap, last.out.val)

\* the instances of Option, Result and Either
Instances(h) ==
    {a \in DOMAIN h :
        h[a].cls \in {"Some", "None", "OptionT", "Ok", "Err", "ResultT", "Left", "Right"}}

\* C26: no operation changes an instance there is: its variant and the
\* payload it refers to are after every call what they were before it.
C26_NoMutation ==
    [][\A a \in Instances(heap) : a \in DOMAIN heap' /\ heap'[a] = heap[a]]_vars

\* Ok(v).map(fn) gave a new Ok of another payload, the receiver holding v still
C26_Witness ==
    /\ last.op = "Result.map"
    /\ isOk(heap, last.this)
    /\ last.out = [kind |-> "return", val |-> Ref(last.before + 1)]
    /\ isOk(heap, last.out.val)
    /\ PayloadOf(heap, last.out.val) # PayloadOf(heap, last.this)

\* what unwrapOrUndefined() gives on the Option o
UnwrapOrUndefinedOf(h, o) ==
    IF h[o.n].cls = "OptionT" THEN OptionT_unwrapOrUndefined(h, o).out
    ELSE unwrapOrUndefined(h, o).out

\* C27: the variant of an instance is that of the constructor that made it,
\* whatever the payload (undefined, null, a number, an Error, another Option,
\* Result or Either): Some(p) is Some and not None, Ok(p) is Ok and not Err,
\* Err(p) is Err and not Ok, Left(p) is Left and not Right, Right(p) is
\* Right and not Left.  Some(undefined) is Some although unwrapOrUndefined()
\* gives on it what it gives on a None.
C27_VariantNotByPayload ==
    LET made == last.out.val
    IN /\ last.op \in {"Some", "Ok", "Err", "Left", "Right"} =>
              /\ last.out.kind = "return"
              /\ PayloadOf(heap, made) = last.args[1]
       /\ last.op = "Some" => isSome(heap, made) /\ ~isNone(heap, made)
       /\ last.op = "Ok" => isOk(heap, made) /\ ~isErr(heap, made)
       /\ last.op = "Err" => isErr(heap, made) /\ ~isOk(heap, made)
       /\ last.op = "Left" => isLeft(heap, made) /\ ~isRight(heap, made)
       /\ last.op = "Right" => isRight(heap, made) /\ ~isLeft(heap, made)
       /\ last.op = "None" => isNone(heap, made) /\ ~isSome(heap, made)
       /\ (last.op = "Some" /\ last.args = <<Undefined>>) =>
              UnwrapOrUndefinedOf(heap, made) = [kind |-> "return", val |-> Undefined]
       /\ last.op = "None" =>
              UnwrapOrUndefinedOf(heap, made) = [kind |-> "return", val |-> Undefined]
       /\ last.op \in {"isSome", "isNone", "isOk", "isErr", "isLeft", "isRight"} =>
              \A a \in DOMAIN heap :
                  (heap[a].cls = heap[last.this.n].cls
                   /\ heap[a].syms = heap[last.this.n].syms
                   /\ heap[a]._value.syms = heap[last.this.n]._value.syms) =>
                      VariantOf(heap, a) = VariantOf(heap, last.this.n)

\* Some(undefined) is Some
C27_Witness ==
    /\ last.op = "Some"
    /\ last.args = <<Undefined>>
    /\ last.out.kind = "return"
    /\ isSome(heap, last.out.val)
    /\ ~isNone(heap, last.out.val)

AdapterOps == {"unsafeFrom", "from", "unsafeFromAsync", "fromAsync"}

\* the adapter gave an Err holding v, or raised v
CapturedOrRaised(v) ==
    \/ /\ last.out.kind = "return"
       /\ isErr(heap, last.out.val)
       /\ PayloadOf(heap, last.out.val) = v
    \/ last.out = [kind |-> "throw", val |-> v]

\* C28: unsafeFrom, from, unsafeFromAsync and fromAsync call the wrapped
\* function exactly once, also when it raises or its promise rejects; what
\* it raised is then either held by the Err the adapter gives or raised to
\* the caller, and while the adapter waits it has called fn once.
C28_NoRetries ==
    /\ last.op \in AdapterOps =>
           /\ last.calls = <<[fn |-> "fn", args |-> <<>>]>>
           /\ last.thunk.does = "throw" => CapturedOrRaised(last.thunk.val)
           /\ last.thunk.does = "throwNew" =>
                  /\ CapturedOrRaised(Ref(last.before + 1))
                  /\ heap[last.before + 1].cls = last.thunk.cls
           /\ (last.thunk = NoThunk /\ task.awaited.kind = "throw") =>
                  CapturedOrRaised(task.awaited.val)
           /\ last.out.kind = "throw" =>
                  \/ last.thunk.does \in {"throw", "throwNew"}
                  \/ last.thunk = NoThunk /\ task.awaited.kind = "throw"
    /\ task.phase = "awaiting" => task.calls = <<[fn |-> "fn", args |-> <<>>]>>

\* unsafeFromAsync(fn) with fn raising at once gave an Err after one call
C28_Witness ==
    /\ last.op = "unsafeFromAsync"
    /\ last.thunk.does = "throw"
    /\ last.calls = <<[fn |-> "fn", args |-> <<>>]>>
    /\ last.out.kind = "return"
    /\ isErr(heap, last.out.val)

\* The heap of single-class instances as the subclass generation builds it
\* from the same constructor calls.
AsSubclass(h) ==
    [a \in DOMAIN h |->
        CASE h[a].cls = "OptionT" ->
                 IF "SYM_SOME" \in h[a]._value.syms
                 THEN Instance("Some", {"SYM_SOME"}, h[a]._value.inner)
                 ELSE Instance("None", {"SYM_NONE"}, Undefined)
          [] h[a].cls = "ResultT" ->
                 IF "SYM_OK" \in h[a]._value.syms
                 THEN Instance("Ok", {"SYM_OK"}, h[a]._value.inner)
                 ELSE Instance("Err", {"SYM_ERR"}, h[a]._value.inner)
          [] OTHER -> h[a]]

\* the operations of Spec that the claim lists
SharedOps ==
    {"isSome", "isNone", "isOk", "isErr", "Option.map", "Option.flatten",
     "Option.okOr", "Result.unwrap", "Result.map", "Result.mapErr", "Result.flatten"}

\* the last call, made in the subclass generation
SubclassTwin ==
    LET h == AsSubclass(Pre)
        this == last.this
    IN CASE last.op = "isSome" -> Ret(h, Bool(isSome(h, this)), <<>>)
         [] last.op = "isNone" -> Ret(h, Bool(isNone(h, this)), <<>>)
         [] last.op = "isOk" -> Ret(h, Bool(isOk(h, this)), <<>>)
         [] last.op = "isErr" -> Ret(h, Bool(isErr(h, this)), <<>>)
         [] last.op = "Option.map" -> Option_map(h, this, last.fn)
         [] last.op = "Option.flatten" -> Option_flatten(h, this)
         [] last.op = "Option.okOr" -> Option_okOr(h, this, last.args[1])
         [] last.op = "Result.unwrap" -> unwrapResult(h, this)
         [] last.op = "Result.map" -> Result_map(h, this, last.fn)
         [] last.op = "Result.mapErr" -> Result_mapErr(h, this, last.fn)
         [] OTHER -> Result_flatten(h, this)

IsNewIn(v, before) == IsRef(v) /\ v.n > before

KindOf(h, a) ==
    CASE h[a].cls \in {"Some", "None", "OptionT"} -> "Option"
      [] h[a].cls \in {"Ok", "Err", "ResultT"} -> "Result"
      [] OTHER -> h[a].cls

\* a value as a caller tells it from another: a value there was before the
\* call by identity, an object the call made by its kind and variant
Flat(h, v, before) ==
    IF IsNewIn(v, before)
    THEN [tag |-> "new", kind |-> KindOf(h, v.n), variant |-> VariantOf(h, v.n),
          val |-> IF IsNewIn(PayloadOf(h, v), before) THEN Undefined ELSE PayloadOf(h, v)]
    ELSE [tag |-> "old", kind |-> "", variant |-> <<>>, val |-> v]

Shape(h, v, before) ==
    [outer |-> Flat(h, v, before),
     inner |-> IF IsNewIn(v, before) THEN Flat(h, PayloadOf(h, v), before)
               ELSE Flat(h, Undefined, before)]

\* C29: the two generations agree: a call of an operation present in both
\* returns in the single-class generation the variant and the payload that
\* the same call returns in the subclass generation on the instances built
\* by the same constructor calls, calls the same callbacks with the same
\* arguments, and raises in the same cases, the same value.
C29_GenerationsAgree ==
    (impl = "tagged" /\ last.op \in SharedOps) =>
        LET twin == SubclassTwin
        IN /\ last.out.kind = twin.out.kind
           /\ last.calls = twin.calls
           /\ Shape(heap, last.out.val, last.before)
                  = Shape(twin.heap, twin.out.val, last.before)

\* the same, flatten left out
C29_AgreeButFlatten ==
    last.op \notin {"Option.flatten", "Result.flatten"} => C29_GenerationsAgree

\* C30: when a callback handed to a combinator raises x, the combinator
\* raises that x to its caller: nothing is called after it and nothing is
\* returned, no Option, Result or Either in particular, while unsafeFrom
\* turns the raise of its function into an Err.
C30_CallbackRaisePropagates ==
    /\ (last.op # "" /\ last.op \notin AdapterOps) =>
           /\ \A i \in DOMAIN last.calls :
                  last.calls[i].fn = "raise" =>
                      /\ i = Len(last.calls)
                      /\ last.out = [kind |-> "throw", val |-> last.calls[i].args[1]]
           /\ (last.calls # <<>> /\ last.calls[Len(last.calls)].fn = "fn") =>
                  /\ last.thunk.does = "throw" =>
                         last.out = [kind |-> "throw", val |-> last.thunk.val]
                  /\ last.thunk.does = "throwNew" =>
                         /\ last.out = [kind |-> "throw", val |-> Ref(Len(heap))]
                         /\ heap[Len(heap)].cls = last.thunk.cls
    /\ (last.op = "unsafeFrom" /\ last.thunk.does = "throw") =>
           /\ last.out.kind = "return"
           /\ isErr(heap, last.out.val)
           /\ PayloadOf(heap, last.out.val) = last.thunk.val

\* Ok(v).map((v) => { throw v }) raised v
C30_Witness ==
    /\ last.op = "Result.map"
    /\ isOk(heap, last.this)
    /\ last.fn = "raise"
    /\ last.out = [kind |-> "throw", val |-> PayloadOf(heap, last.this)]

====
